---- MODULE Spec2Model ----
(***************************************************************************)
(* Profile / Test / Question CRUD backend (FastAPI routes over a hosted    *)
(* relational store).  Tables are sequences of rows in insertion order; a  *)
(* row's id and created_at are its insertion position.  A handler that     *)
(* issues dependent store calls takes one step per call, so requests       *)
(* interleave between calls: pending is the bag of requests in flight and  *)
(* resp is the response on its way to the client; the next handler step    *)
(* is taken once it is delivered.                                          *)
(***************************************************************************)
EXTENDS Integers, Sequences, FiniteSets, Bags, TLC

VARIABLES profiles, tests, questions, mcq_options, theory_details,
          coding_details, test_attempts, pending, resp

vars == <<profiles, tests, questions, mcq_options, theory_details,
          coding_details, test_attempts, pending, resp>>

-----------------------------------------------------------------------------
(* Bounds of the model *)

MaxInflight == 2
MaxProfiles == 2
MaxTests == 2
MaxQuestions == 2
MaxPage == 3
MaxLimit == 2
\* rows of the tables the list operations are applied to
MaxReadRows == 3
\* question requests in flight at once
MaxQuestionInflight == 1
\* tests, questions and requests in flight when every route is enabled
MaxAssessmentRows == 1
\* marks and order_no of the question create payloads
MaxMarks == 2
MaxOrderNo == 2
\* rows of test_attempts the statistics are computed over
MaxAttempts == 2

-----------------------------------------------------------------------------
(* Principals: the (id, role) pairs the bearer tokens resolve to *)

Principals == {"u1", "i1", "i2"}

RoleOf(p) == IF p = "u1" THEN "user" ELSE "institution"

\* get_current_user: the principal {id, role} of the request's token
get_current_user(p) == [id |-> p, role |-> RoleOf(p)]

\* require_role(role): TRUE when the request passes the role gate
require_role(role, p) == get_current_user(p).role = role

-----------------------------------------------------------------------------
(* Enumerations of models.py and the payload domains *)

RoleEnum == {"user", "institution"}
\* the CityEnum value the payloads and filters carry
CityValues == {"Bhopal"}
NULL == "NULL"

\* column defaults of the store for rows inserted without the column
DefaultIsActive == TRUE
DefaultIsPublished == FALSE

-----------------------------------------------------------------------------
(* Requests in flight and responses *)

\* a request between two of its store calls; local holds the row a handler
\* keeps in a local variable across calls
Request(op, by, pc, target) ==
    [op |-> op, by |-> by, pc |-> pc, target |-> target, local |-> <<>>]

NoResponse == [op |-> "none", by |-> "none", status |-> 0, target |-> 0,
               data |-> <<>>, total |-> 0, args |-> <<>>]

\* the response of a request: HTTP status and the envelope's data
Response(op, by, target, status, data, args) ==
    [op |-> op, by |-> by, status |-> status, target |-> target,
     data |-> data, total |-> 0, args |-> args]

\* the response of a list endpoint: data, total, and the query it answered
Paginated(op, by, data, total, args) ==
    [op |-> op, by |-> by, status |-> 200, target |-> 0,
     data |-> data, total |-> total, args |-> args]

\* no response is waiting to be delivered
Ready == resp = NoResponse

\* the server takes a new request while fewer than MaxInflight are in flight
CanAccept == Ready /\ BagCardinality(pending) < MaxInflight

\* the response reaches the client
deliver ==
    /\ resp # NoResponse
    /\ resp' = NoResponse
    /\ UNCHANGED <<profiles, tests, questions, mcq_options, theory_details,
                   coding_details, pending, test_attempts>>

Accept(r) == pending (+) SetToBag({r})

Finish(r) == pending (-) SetToBag({r})

Advance(r, pc) == Finish(r) (+) SetToBag({[r EXCEPT !.pc = pc]})

InFlight(r) == Ready /\ BagIn(r, pending)

-----------------------------------------------------------------------------
(* Store helpers *)

\* res.data[0] if res.data else None, as a sequence of at most one row
First(rows) == IF rows = <<>> THEN <<>> ELSE <<Head(rows)>>

\* .order(column, desc=True) on rows kept in ascending order of the column
Reverse(seq) == [i \in 1..Len(seq) |-> seq[Len(seq) + 1 - i]]

\* .range(from, to) on an ordered result, 0-based and inclusive
Range(rows, from, to) ==
    IF from + 1 > Len(rows) THEN <<>>
    ELSE SubSeq(rows, from + 1, IF to + 1 > Len(rows) THEN Len(rows) ELSE to + 1)

\* .update(data) applied to one row: the fields present in data are written
Patch(row, data) ==
    [f \in DOMAIN row |-> IF f \in data.present THEN data.vals[f] ELSE row[f]]

\* .update(data).eq(column, value) on a table
UpdateWhere(table, column, value, data) ==
    [i \in 1..Len(table) |->
        IF table[i][column] = value THEN Patch(table[i], data) ELSE table[i]]

\* .select(...).eq(column, value) on a table
SelectWhere(table, column, value) ==
    SelectSeq(table, LAMBDA r : r[column] = value)

-----------------------------------------------------------------------------
(* Profile Service and the /profiles routes *)

\* the principals that call the /profiles routes
ProfileCallers == {"u1", "i1"}

\* ProfileCreate payloads (the body's user_id is any id the caller writes)
ProfileCreatePayloads ==
    [user_id : ProfileCallers, role : RoleEnum, city : CityValues \cup {NULL}]

\* ProfileUpdate payloads: present = the fields that are not None (vals of
\* an absent field is a placeholder that is never read)
ProfileUpdatePayloads ==
    LET blank == [role |-> "user", city |-> "Bhopal", is_active |-> TRUE]
        all == [present : SUBSET {"role", "city", "is_active"},
                vals : [role : RoleEnum, city : CityValues, is_active : BOOLEAN]]
    IN { u \in all : \A f \in DOMAIN blank \ u.present : u.vals[f] = blank[f] }

\* variant: the lookup sees only active rows
get_profile_by_user_id_active_only(user_id) ==
    First(SelectSeq(profiles, LAMBDA r : r.user_id = user_id /\ r.is_active))

\* ProfileService.get_profile_by_user_id
get_profile_by_user_id(user_id) ==
    First(SelectWhere(profiles, "user_id", user_id))

\* variant: the row without data["user_id"] = str(user_id)
ProfileRow_body_user_id(profile_data, user_id) ==
    [id |-> Len(profiles) + 1,
     user_id |-> profile_data.user_id,
     role |-> profile_data.role,
     city |-> profile_data.city,
     is_active |-> DefaultIsActive,
     created_at |-> Len(profiles) + 1]

\* the row ProfileService.create_profile inserts: model_dump, user_id overwritten
ProfileRow(profile_data, user_id) ==
    [id |-> Len(profiles) + 1,
     user_id |-> user_id,
     role |-> profile_data.role,
     city |-> profile_data.city,
     is_active |-> DefaultIsActive,
     created_at |-> Len(profiles) + 1]

\* POST /profiles, the route's check: 400 when the principal has a profile
create_profile(p) ==
    /\ CanAccept
    /\ IF get_profile_by_user_id(p) # <<>>
       THEN /\ resp' = Response("create_profile", p, 0, 400, <<>>, <<>>)
            /\ pending' = pending
       ELSE /\ resp' = NoResponse
            /\ pending' = Accept(Request("create_profile", p, "check", 0))
    /\ UNCHANGED <<profiles, tests, questions, mcq_options, theory_details,
                   coding_details, test_attempts>>

\* ProfileService.create_profile, the existence select: raises when a row exists
ProfileService_create_profile_check(r) ==
    /\ InFlight(r)
    /\ r.op = "create_profile"
    /\ r.pc = "check"
    /\ IF SelectWhere(profiles, "user_id", r.by) # <<>>
       THEN /\ resp' = Response("create_profile", r.by, 0, 500, <<>>, <<>>)
            /\ pending' = Finish(r)
       ELSE /\ resp' = NoResponse
            /\ pending' = Advance(r, "insert")
    /\ UNCHANGED <<profiles, tests, questions, mcq_options, theory_details,
                   coding_details, test_attempts>>

\* ProfileService.create_profile, the insert, and the route's answer
ProfileService_create_profile_insert(r) ==
    /\ InFlight(r)
    /\ r.op = "create_profile"
    /\ r.pc = "insert"
    /\ pending' = Finish(r)
    /\ \/ \E profile_data \in ProfileCreatePayloads :
            LET row == ProfileRow(profile_data, r.by) IN
            /\ Len(profiles) < MaxProfiles
            /\ profiles' = Append(profiles, row)
            /\ resp' = Response("create_profile", r.by, row.id, 201, <<row>>,
                                profile_data)
       \/ /\ profiles' = profiles
          /\ resp' = Response("create_profile", r.by, 0, 500, <<>>, <<>>)
    /\ UNCHANGED <<tests, questions, mcq_options, theory_details,
                   coding_details, test_attempts>>

\* variant: the update is restricted to active rows
ProfileService_update_profile_active_rows(user_id, update_data) ==
    IF update_data.present = {}
    THEN [rows |-> profiles, result |-> get_profile_by_user_id(user_id)]
    ELSE LET updated ==
                [i \in DOMAIN profiles |->
                    IF profiles[i].user_id = user_id /\ profiles[i].is_active
                    THEN Patch(profiles[i], update_data) ELSE profiles[i]]
         IN [rows |-> updated,
             result |-> First(SelectWhere(updated, "user_id", user_id))]

\* variant: the update writes every field of the payload, absent ones too
ProfileService_update_profile_all_fields(user_id, update_data) ==
    LET data == [present |-> DOMAIN update_data.vals, vals |-> update_data.vals]
        updated == UpdateWhere(profiles, "user_id", user_id, data)
    IN [rows |-> updated,
        result |-> First(SelectWhere(updated, "user_id", user_id))]

\* ProfileService.update_profile: the table after the call and its result
ProfileService_update_profile(user_id, update_data) ==
    IF update_data.present = {}
    THEN [rows |-> profiles, result |-> get_profile_by_user_id(user_id)]
    ELSE LET updated == UpdateWhere(profiles, "user_id", user_id, update_data)
         IN [rows |-> updated,
             result |-> First(SelectWhere(updated, "user_id", user_id))]

\* PUT /profiles/me
update_my_profile(p) ==
    \E profile_update \in ProfileUpdatePayloads :
        LET r == ProfileService_update_profile(p, profile_update) IN
        /\ Ready
        /\ profiles' = r.rows
        /\ resp' = IF r.result = <<>>
                   THEN Response("update_my_profile", p, 0, 404, <<>>,
                                 profile_update)
                   ELSE Response("update_my_profile", p, r.result[1].id, 200,
                                 r.result, profile_update)
        /\ UNCHANGED <<tests, questions, mcq_options, theory_details,
                       coding_details, pending, test_attempts>>

\* ProfileService.delete_profile: the table after the call and its result
ProfileService_delete_profile(user_id) ==
    LET data == [present |-> {"is_active"}, vals |-> [is_active |-> FALSE]]
    IN [rows |-> UpdateWhere(profiles, "user_id", user_id, data),
        result |-> Len(SelectWhere(profiles, "user_id", user_id)) > 0]

\* DELETE /profiles/me
delete_my_profile(p) ==
    LET r == ProfileService_delete_profile(p) IN
    /\ Ready
    /\ profiles' = r.rows
    /\ resp' = IF ~r.result
               THEN Response("delete_my_profile", p, 0, 500, <<>>, <<>>)
               ELSE Response("delete_my_profile", p, 0, 200, <<>>, <<>>)
    /\ UNCHANGED <<tests, questions, mcq_options, theory_details,
                   coding_details, pending, test_attempts>>

\* variant: without an is_active filter only active rows are listed
ProfileService_get_all_profiles_active_by_default(page, limit, is_active, role, city) ==
    LET offset == (page - 1) * limit
        match(r) == /\ r.is_active = (is_active # "false")
                    /\ (role # NULL => r.role = role)
                    /\ (city # NULL => r.city = city)
        ordered == Reverse(SelectSeq(profiles, match))
        data == Range(ordered, offset, offset + limit - 1)
        count == Len(ordered)
    IN <<data, IF count # 0 THEN count ELSE Len(data)>>

\* variant: offset = page * limit
ProfileService_get_all_profiles_offset_page(page, limit, is_active, role, city) ==
    LET offset == page * limit
        match(r) == /\ (is_active # NULL => r.is_active = (is_active = "true"))
                    /\ (role # NULL => r.role = role)
                    /\ (city # NULL => r.city = city)
        ordered == Reverse(SelectSeq(profiles, match))
        data == Range(ordered, offset, offset + limit - 1)
        count == Len(ordered)
    IN <<data, IF count # 0 THEN count ELSE Len(data)>>

\* ProfileService.get_all_profiles: <<page rows, total>>; a filter that is
\* None (NULL here) is not applied
ProfileService_get_all_profiles(page, limit, is_active, role, city) ==
    LET offset == (page - 1) * limit
        match(r) == /\ (is_active # NULL => r.is_active = (is_active = "true"))
                    /\ (role # NULL => r.role = role)
                    /\ (city # NULL => r.city = city)
        ordered == Reverse(SelectSeq(profiles, match))
        data == Range(ordered, offset, offset + limit - 1)
        count == Len(ordered)
    IN <<data, IF count # 0 THEN count ELSE Len(data)>>

\* ProfileService.get_users
get_users(page, limit) ==
    ProfileService_get_all_profiles(page, limit, NULL, "user", NULL)

\* ProfileService.get_institutions
get_institutions(page, limit) ==
    ProfileService_get_all_profiles(page, limit, NULL, "institution", NULL)

\* GET /profiles/me
get_my_profile(p) ==
    LET profile == get_profile_by_user_id(get_current_user(p).id) IN
    /\ Ready
    /\ resp' = IF profile = <<>>
               THEN Response("get_my_profile", p, 0, 404, <<>>, <<>>)
               ELSE Response("get_my_profile", p, 0, 200, profile, <<>>)
    /\ UNCHANGED <<profiles, tests, questions, mcq_options, theory_details,
                   coding_details, pending, test_attempts>>

\* GET /profiles/user/{user_id}: no authentication dependency
get_profile_by_user_id_route(user_id) ==
    LET profile == get_profile_by_user_id(user_id) IN
    /\ Ready
    /\ resp' = IF profile = <<>>
               THEN Response("get_profile_by_user_id", "none", user_id, 404,
                             <<>>, <<>>)
               ELSE Response("get_profile_by_user_id", "none", user_id, 200,
                             profile, <<>>)
    /\ UNCHANGED <<profiles, tests, questions, mcq_options, theory_details,
                   coding_details, pending, test_attempts>>

\* GET /profiles
get_all_profiles(page, limit, is_active, role, city) ==
    LET res == ProfileService_get_all_profiles(page, limit, is_active, role,
                                               city) IN
    /\ Ready
    /\ resp' = Paginated("get_all_profiles", "none", res[1], res[2],
                         [page |-> page, limit |-> limit,
                          is_active |-> is_active, role |-> role,
                          city |-> city])
    /\ UNCHANGED <<profiles, tests, questions, mcq_options, theory_details,
                   coding_details, pending, test_attempts>>

\* GET /profiles/users
get_all_users(page, limit) ==
    LET res == get_users(page, limit) IN
    /\ Ready
    /\ resp' = Paginated("get_all_users", "none", res[1], res[2],
                         [page |-> page, limit |-> limit])
    /\ UNCHANGED <<profiles, tests, questions, mcq_options, theory_details,
                   coding_details, pending, test_attempts>>

\* GET /profiles/institutions
get_all_institutions(page, limit) ==
    LET res == get_institutions(page, limit) IN
    /\ Ready
    /\ resp' = Paginated("get_all_institutions", "none", res[1], res[2],
                         [page |-> page, limit |-> limit])
    /\ UNCHANGED <<profiles, tests, questions, mcq_options, theory_details,
                   coding_details, pending, test_attempts>>

-----------------------------------------------------------------------------
(* Test Service and the /tests routes *)

\* ids a request may address: the tests that can exist
TestIds == 1..MaxTests

\* TestUpdate payloads: present = the fields that are not None, among the
\* two flags of TestUpdate (its content fields are written the same way)
TestUpdatePayloads ==
    LET blank == [is_active |-> TRUE, is_published |-> TRUE]
        all == [present : SUBSET {"is_active", "is_published"},
                vals : [is_active : BOOLEAN, is_published : BOOLEAN]]
    IN { u \in all : \A f \in DOMAIN blank \ u.present : u.vals[f] = blank[f] }

\* variant: the row without data["created_by"] = created_by
TestRow_no_creator(created_by) ==
    [id |-> Len(tests) + 1,
     created_by |-> NULL,
     is_active |-> DefaultIsActive,
     is_published |-> DefaultIsPublished,
     created_at |-> Len(tests) + 1]

\* the row TestService.create_test inserts: the creator, and the store's
\* defaults for the flags TestCreate does not carry
TestRow(created_by) ==
    [id |-> Len(tests) + 1,
     created_by |-> created_by,
     is_active |-> DefaultIsActive,
     is_published |-> DefaultIsPublished,
     created_at |-> Len(tests) + 1]

\* variant: the count select with .eq("is_active", True)
WithQuestionCount_active_only(test) ==
    [f \in DOMAIN test \cup {"question_count"} |->
        IF f = "question_count"
        THEN Len(SelectSeq(questions,
                           LAMBDA q : q.test_id = test.id /\ q.is_active))
        ELSE test[f]]

\* a test row with the computed question_count
WithQuestionCount(test) ==
    [f \in DOMAIN test \cup {"question_count"} |->
        IF f = "question_count"
        THEN Len(SelectWhere(questions, "test_id", test.id))
        ELSE test[f]]

\* variant: the select with .eq("is_active", True)
get_test_by_id_active_only(test_id) ==
    LET data == SelectSeq(tests, LAMBDA t : t.id = test_id /\ t.is_active)
    IN IF data # <<>> THEN <<WithQuestionCount(data[1])>> ELSE <<>>

\* TestService.get_test_by_id: <<test with question_count>>, or <<>> for None
get_test_by_id(test_id) ==
    LET data == SelectWhere(tests, "id", test_id)
    IN IF data # <<>> THEN <<WithQuestionCount(data[1])>> ELSE <<>>

\* variant: the list is not restricted to is_active = true
TestService_get_all_tests_unrestricted(page, limit, is_published, created_by) ==
    LET offset == (page - 1) * limit
        match(r) ==
            /\ (is_published # NULL => r.is_published = (is_published = "true"))
            /\ (created_by # NULL => r.created_by = created_by)
        ordered == Reverse(SelectSeq(tests, match))
        data == Range(ordered, offset, offset + limit - 1)
        count == Len(ordered)
    IN <<data, IF count # 0 THEN count ELSE Len(data)>>

\* TestService.get_all_tests: <<page rows, total>>
TestService_get_all_tests(page, limit, is_published, created_by) ==
    LET offset == (page - 1) * limit
        match(r) ==
            /\ (is_published # NULL => r.is_published = (is_published = "true"))
            /\ (created_by # NULL => r.created_by = created_by)
            /\ r.is_active = TRUE
        ordered == Reverse(SelectSeq(tests, match))
        data == Range(ordered, offset, offset + limit - 1)
        count == Len(ordered)
    IN <<data, IF count # 0 THEN count ELSE Len(data)>>

\* variant: an empty payload returns the bare row of tests
TestService_update_test_bare_row(test_id, update_data) ==
    LET updated == UpdateWhere(tests, "id", test_id, update_data)
    IN [rows |-> updated, result |-> First(SelectWhere(updated, "id", test_id))]

\* variant: the update writes every field of the payload, absent ones too
TestService_update_test_all_fields(test_id, update_data) ==
    LET data == [present |-> DOMAIN update_data.vals, vals |-> update_data.vals]
        updated == UpdateWhere(tests, "id", test_id, data)
    IN [rows |-> updated,
        result |-> First(SelectWhere(updated, "id", test_id))]

\* TestService.update_test: the table after the call and its result
TestService_update_test(test_id, update_data) ==
    IF update_data.present = {}
    THEN [rows |-> tests, result |-> get_test_by_id(test_id)]
    ELSE LET updated == UpdateWhere(tests, "id", test_id, update_data)
         IN [rows |-> updated,
             result |-> First(SelectWhere(updated, "id", test_id))]

\* variant: the soft delete also withdraws the test from publication
TestService_delete_test_unpublishing(test_id) ==
    LET data == [present |-> {"is_active", "is_published"},
                 vals |-> [is_active |-> FALSE, is_published |-> FALSE]]
    IN [rows |-> UpdateWhere(tests, "id", test_id, data),
        result |-> Len(SelectWhere(tests, "id", test_id)) > 0]

\* TestService.delete_test
TestService_delete_test(test_id) ==
    LET data == [present |-> {"is_active"}, vals |-> [is_active |-> FALSE]]
    IN [rows |-> UpdateWhere(tests, "id", test_id, data),
        result |-> Len(SelectWhere(tests, "id", test_id)) > 0]

\* TestService.publish_test
TestService_publish_test(test_id) ==
    LET data == [present |-> {"is_published"}, vals |-> [is_published |-> TRUE]]
        updated == UpdateWhere(tests, "id", test_id, data)
    IN [rows |-> updated, result |-> First(SelectWhere(updated, "id", test_id))]

\* TestService.unpublish_test
TestService_unpublish_test(test_id) ==
    LET data == [present |-> {"is_published"}, vals |-> [is_published |-> FALSE]]
        updated == UpdateWhere(tests, "id", test_id, data)
    IN [rows |-> updated, result |-> First(SelectWhere(updated, "id", test_id))]

\* sum(q["marks"] for q in questions)
RECURSIVE SumMarks(_)
SumMarks(rows) ==
    IF rows = <<>> THEN 0 ELSE Head(rows).marks + SumMarks(Tail(rows))

\* variant: the questions select without .eq("is_active", True)
get_test_stats_all_questions(test_id) ==
    LET rows == SelectWhere(questions, "test_id", test_id)
        count == Len(SelectWhere(test_attempts, "test_id", test_id))
    IN [total_questions |-> Len(rows),
        mcq_count |-> Len(SelectWhere(rows, "question_type", "mcq")),
        theory_count |-> Len(SelectWhere(rows, "question_type", "theory")),
        coding_count |-> Len(SelectWhere(rows, "question_type", "coding")),
        total_marks |-> SumMarks(rows),
        total_attempts |-> IF count # 0 THEN count ELSE 0]

\* TestService.get_test_stats
get_test_stats(test_id) ==
    LET rows == SelectSeq(questions,
                          LAMBDA q : q.test_id = test_id /\ q.is_active = TRUE)
        count == Len(SelectWhere(test_attempts, "test_id", test_id))
    IN [total_questions |-> Len(rows),
        mcq_count |-> Len(SelectWhere(rows, "question_type", "mcq")),
        theory_count |-> Len(SelectWhere(rows, "question_type", "theory")),
        coding_count |-> Len(SelectWhere(rows, "question_type", "coding")),
        total_marks |-> SumMarks(rows),
        total_attempts |-> IF count # 0 THEN count ELSE 0]

\* GET /tests/{id}/stats: no authentication dependency
get_test_stats_route(test_id) ==
    LET test == get_test_by_id(test_id) IN
    /\ Ready
    /\ resp' = IF test = <<>>
               THEN Response("get_test_stats", "none", test_id, 404, <<>>, <<>>)
               ELSE Response("get_test_stats", "none", test_id, 200,
                             <<get_test_stats(test_id)>>, <<>>)
    /\ UNCHANGED <<profiles, tests, questions, mcq_options, theory_details,
                   coding_details, test_attempts, pending>>

\* variant: POST /tests open to every authenticated principal
create_test_any_role(p) ==
    /\ Ready
    /\ \/ LET row == TestRow(get_current_user(p).id) IN
            /\ Len(tests) < MaxTests
            /\ tests' = Append(tests, row)
            /\ resp' = Response("create_test", p, row.id, 201, <<>>, <<>>)
       \/ /\ tests' = tests
          /\ resp' = Response("create_test", p, 0, 500, <<>>, <<>>)
    /\ UNCHANGED <<profiles, questions, mcq_options, theory_details,
                   coding_details, pending, test_attempts>>

\* variant: the role is read from the caller's profile row when there is one
create_test_profile_role(p) ==
    LET profile == get_profile_by_user_id(p)
        role == IF profile = <<>> THEN get_current_user(p).role
                ELSE profile[1].role IN
    /\ Ready
    /\ IF role # "institution"
       THEN /\ resp' = Response("create_test", p, 0, 403, <<>>, <<>>)
            /\ tests' = tests
       ELSE \/ LET row == TestRow(get_current_user(p).id) IN
                /\ Len(tests) < MaxTests
                /\ tests' = Append(tests, row)
                /\ resp' = Response("create_test", p, row.id, 201, <<>>, <<>>)
            \/ /\ tests' = tests
               /\ resp' = Response("create_test", p, 0, 500, <<>>, <<>>)
    /\ UNCHANGED <<profiles, questions, mcq_options, theory_details,
                   coding_details, pending, test_attempts>>

\* POST /tests
create_test(p) ==
    /\ Ready
    /\ IF ~require_role("institution", p)
       THEN /\ resp' = Response("create_test", p, 0, 403, <<>>, <<>>)
            /\ tests' = tests
       ELSE \/ LET row == TestRow(get_current_user(p).id) IN
                /\ Len(tests) < MaxTests
                /\ tests' = Append(tests, row)
                /\ resp' = Response("create_test", p, row.id, 201, <<>>, <<>>)
            \/ /\ tests' = tests
               /\ resp' = Response("create_test", p, 0, 500, <<>>, <<>>)
    /\ UNCHANGED <<profiles, questions, mcq_options, theory_details,
                   coding_details, pending, test_attempts>>

\* GET /tests/{id}: no authentication dependency, any caller
get_test(test_id) ==
    LET test == get_test_by_id(test_id) IN
    /\ Ready
    /\ resp' = IF test = <<>>
               THEN Response("get_test", "none", test_id, 404, <<>>, <<>>)
               ELSE Response("get_test", "none", test_id, 200, test, <<>>)
    /\ UNCHANGED <<profiles, tests, questions, mcq_options, theory_details,
                   coding_details, pending, test_attempts>>

\* GET /tests: no authentication dependency
get_all_tests(page, limit, is_published) ==
    LET res == TestService_get_all_tests(page, limit, is_published, NULL) IN
    /\ Ready
    /\ resp' = Paginated("get_all_tests", "none", res[1], res[2],
                         [page |-> page, limit |-> limit,
                          is_published |-> is_published])
    /\ UNCHANGED <<profiles, tests, questions, mcq_options, theory_details,
                   coding_details, pending, test_attempts>>

\* GET /tests/my-tests
get_my_tests(p, page, limit) ==
    LET res == TestService_get_all_tests(page, limit, NULL,
                                         get_current_user(p).id) IN
    /\ Ready
    /\ resp' = IF ~require_role("institution", p)
               THEN Response("get_my_tests", p, 0, 403, <<>>, <<>>)
               ELSE Paginated("get_my_tests", p, res[1], res[2],
                              [page |-> page, limit |-> limit])
    /\ UNCHANGED <<profiles, tests, questions, mcq_options, theory_details,
                   coding_details, pending, test_attempts>>

\* variant: the checks without the comparison of created_by
TestOwnerGate_no_owner_check(op, p, test_id) ==
    LET existing == get_test_by_id(test_id) IN
    /\ CanAccept
    /\ IF ~require_role("institution", p)
       THEN /\ resp' = Response(op, p, test_id, 403, <<>>, <<>>)
            /\ pending' = pending
       ELSE IF existing = <<>>
       THEN /\ resp' = Response(op, p, test_id, 404, <<>>, <<>>)
            /\ pending' = pending
       ELSE /\ resp' = NoResponse
            /\ pending' = Accept(Request(op, p, "call", test_id))
    /\ UNCHANGED <<profiles, tests, questions, mcq_options, theory_details,
                   coding_details, test_attempts>>

\* the checks that open PUT /tests/{id}, POST /tests/{id}/publish,
\* POST /tests/{id}/unpublish and DELETE /tests/{id}: role, existence, owner
TestOwnerGate(op, p, test_id) ==
    LET existing == get_test_by_id(test_id) IN
    /\ CanAccept
    /\ IF ~require_role("institution", p)
       THEN /\ resp' = Response(op, p, test_id, 403, <<>>, <<>>)
            /\ pending' = pending
       ELSE IF existing = <<>>
       THEN /\ resp' = Response(op, p, test_id, 404, <<>>, <<>>)
            /\ pending' = pending
       ELSE IF existing[1].created_by # get_current_user(p).id
       THEN /\ resp' = Response(op, p, test_id, 403, <<>>, <<>>)
            /\ pending' = pending
       ELSE /\ resp' = NoResponse
            /\ pending' = Accept(Request(op, p, "call", test_id))
    /\ UNCHANGED <<profiles, tests, questions, mcq_options, theory_details,
                   coding_details, test_attempts>>

\* PUT /tests/{id}: the route's checks
update_test(p, test_id) == TestOwnerGate("update_test", p, test_id)

\* PUT /tests/{id}: the service call and the answer
update_test_call(r) ==
    /\ InFlight(r)
    /\ r.op = "update_test"
    /\ pending' = Finish(r)
    /\ \E test_update \in TestUpdatePayloads :
        LET u == TestService_update_test(r.target, test_update) IN
        /\ tests' = u.rows
        /\ resp' = Response("update_test", r.by, r.target, 200, u.result,
                            test_update)
    /\ UNCHANGED <<profiles, questions, mcq_options, theory_details,
                   coding_details, test_attempts>>

\* POST /tests/{id}/publish: the route's checks
publish_test(p, test_id) == TestOwnerGate("publish_test", p, test_id)

\* POST /tests/{id}/publish: the service call and the answer
publish_test_call(r) ==
    /\ InFlight(r)
    /\ r.op = "publish_test"
    /\ pending' = Finish(r)
    /\ tests' = TestService_publish_test(r.target).rows
    /\ resp' = Response("publish_test", r.by, r.target, 200, <<>>, <<>>)
    /\ UNCHANGED <<profiles, questions, mcq_options, theory_details,
                   coding_details, test_attempts>>

\* POST /tests/{id}/unpublish: the route's checks
unpublish_test(p, test_id) == TestOwnerGate("unpublish_test", p, test_id)

\* POST /tests/{id}/unpublish: the service call and the answer
unpublish_test_call(r) ==
    /\ InFlight(r)
    /\ r.op = "unpublish_test"
    /\ pending' = Finish(r)
    /\ tests' = TestService_unpublish_test(r.target).rows
    /\ resp' = Response("unpublish_test", r.by, r.target, 200, <<>>, <<>>)
    /\ UNCHANGED <<profiles, questions, mcq_options, theory_details,
                   coding_details, test_attempts>>

\* DELETE /tests/{id}: the route's checks
delete_test(p, test_id) == TestOwnerGate("delete_test", p, test_id)

\* DELETE /tests/{id}: the service call and the answer
delete_test_call(r) ==
    /\ InFlight(r)
    /\ r.op = "delete_test"
    /\ pending' = Finish(r)
    /\ LET d == TestService_delete_test(r.target) IN
        /\ tests' = d.rows
        /\ resp' = IF ~d.result
                   THEN Response("delete_test", r.by, r.target, 500, <<>>, <<>>)
                   ELSE Response("delete_test", r.by, r.target, 200, <<>>, <<>>)
    /\ UNCHANGED <<profiles, questions, mcq_options, theory_details,
                   coding_details, test_attempts>>

-----------------------------------------------------------------------------
(* Question Service and the /questions routes *)

\* ids a request may address: the questions that can exist
QuestionIds == 1..MaxQuestions

QuestionTypeEnum == {"mcq", "theory", "coding"}

\* the route and the detail table of each question type
CreateOp(type) == IF type = "mcq" THEN "create_mcq_question"
                  ELSE IF type = "theory" THEN "create_theory_question"
                  ELSE "create_coding_question"

UpdateDetailOp(type) == IF type = "mcq" THEN "update_mcq_options"
                        ELSE IF type = "theory" THEN "update_theory_details"
                        ELSE "update_coding_details"

DetailTable(type) == IF type = "mcq" THEN mcq_options
                     ELSE IF type = "theory" THEN theory_details
                     ELSE coding_details

\* the key get_question_by_id nests the detail row under
DetailKey(type) == IF type = "mcq" THEN "options" ELSE "details"

\* the members of the enumerations the detail payloads carry, with the
\* string each member's .value is
CorrectOptionEnum == [A |-> "a", B |-> "b"]
ProgrammingLanguageEnum == [PYTHON |-> "python"]

\* the base fields of the create payloads (test_id is the request's target)
QuestionCreatePayloads ==
    [question_text : {"text"}, marks : 1..MaxMarks, order_no : 1..MaxOrderNo]

\* the detail part of the create payloads, per type, as the validated model
\* holds it: an enumeration field is a member
DetailCreatePayloads(type) ==
    IF type = "mcq"
    THEN [option_a : {"oa"}, option_b : {"ob"}, option_c : {"oc"},
          option_d : {"od"}, correct_option : DOMAIN CorrectOptionEnum,
          explanation : {NULL, "why"}]
    ELSE IF type = "theory" THEN [word_limit : {500}]
    ELSE [programming_language : DOMAIN ProgrammingLanguageEnum]

\* variant: the enumeration member itself is stored
DetailData_member(type, detail_data) == detail_data

\* the fields of opt_data / detail_data: an enumeration field is written as
\* its .value, every other field as submitted
DetailData(type, detail_data) ==
    [f \in DOMAIN detail_data |->
        IF type = "mcq" /\ f = "correct_option"
        THEN CorrectOptionEnum[detail_data[f]]
        ELSE IF type = "coding" /\ f = "programming_language"
        THEN ProgrammingLanguageEnum[detail_data[f]]
        ELSE detail_data[f]]

\* QuestionUpdate payloads: present = the fields that are not None
QuestionUpdatePayloads ==
    LET blank == [is_active |-> TRUE]
        all == [present : SUBSET {"is_active"},
                vals : [is_active : BOOLEAN]]
    IN { u \in all : \A f \in DOMAIN blank \ u.present : u.vals[f] = blank[f] }

\* MCQOptionUpdate / TheoryDetailsUpdate / CodingDetailsUpdate payloads
DetailUpdatePayloads(type) ==
    IF type = "mcq"
    THEN { [present |-> P, vals |-> [correct_option |-> "b"]] :
              P \in SUBSET {"correct_option"} }
    ELSE IF type = "theory"
    THEN { [present |-> P, vals |-> [word_limit |-> 50]] :
              P \in SUBSET {"word_limit"} }
    ELSE { [present |-> P, vals |-> [programming_language |-> "java"]] :
              P \in SUBSET {"programming_language"} }

\* q_data of create_*_question, as the row the store returns
QuestionRow(test_id, type, question_data) ==
    [id |-> Len(questions) + 1,
     test_id |-> test_id,
     question_type |-> type,
     question_text |-> question_data.question_text,
     marks |-> question_data.marks,
     order_no |-> question_data.order_no,
     is_active |-> DefaultIsActive]

\* opt_data / detail_data of create_*_question
DetailRow(question_id, detail_data) ==
    [f \in DOMAIN detail_data \cup {"question_id"} |->
        IF f = "question_id" THEN question_id ELSE detail_data[f]]

\* question[key] = detail
Nest(question, key, detail) ==
    [f \in DOMAIN question \cup {key} |->
        IF f = key THEN detail ELSE question[f]]

\* variant: the key is set whether or not a detail row came back
WithDetail_always_nested(question) ==
    LET data == SelectWhere(DetailTable(question.question_type),
                            "question_id", question.id)
    IN Nest(question, DetailKey(question.question_type),
            IF data # <<>> THEN data[1] ELSE NULL)

\* the type dispatch of get_question_by_id and get_questions_by_test
WithDetail(question) ==
    LET data == SelectWhere(DetailTable(question.question_type),
                            "question_id", question.id)
    IN IF data # <<>>
       THEN Nest(question, DetailKey(question.question_type), data[1])
       ELSE question

\* QuestionService.get_question_by_id: <<question>>, or <<>> for None
get_question_by_id(question_id) ==
    LET data == SelectWhere(questions, "id", question_id)
    IN IF data = <<>> THEN <<>> ELSE <<WithDetail(data[1])>>

\* variant: the select without .order("order_no")
OrderByOrderNo_table_order(rows) == rows

\* .order("order_no"): ascending, rows of equal order_no in table order
RECURSIVE OrderByOrderNo(_)
OrderByOrderNo(rows) ==
    IF rows = <<>> THEN <<>>
    ELSE LET least == CHOOSE i \in DOMAIN rows :
                        \A j \in DOMAIN rows :
                            \/ rows[i].order_no < rows[j].order_no
                            \/ rows[i].order_no = rows[j].order_no /\ i <= j
             rest == [k \in 1..(Len(rows) - 1) |->
                        IF k < least THEN rows[k] ELSE rows[k + 1]]
         IN <<rows[least]>> \o OrderByOrderNo(rest)

\* variant: the list is not restricted to is_active = true
QuestionService_get_questions_by_test_unrestricted(test_id, question_type) ==
    LET match(q) == /\ q.test_id = test_id
                    /\ (question_type # NULL => q.question_type = question_type)
        data == OrderByOrderNo(SelectSeq(questions, match))
    IN [i \in DOMAIN data |-> WithDetail(data[i])]

\* QuestionService.get_questions_by_test; question_type NULL is no filter
QuestionService_get_questions_by_test(test_id, question_type) ==
    LET match(q) == /\ q.test_id = test_id
                    /\ q.is_active = TRUE
                    /\ (question_type # NULL => q.question_type = question_type)
        data == OrderByOrderNo(SelectSeq(questions, match))
    IN [i \in DOMAIN data |-> WithDetail(data[i])]

\* variant: the checks without the comparison of created_by
create_question_no_owner_check(type, p, test_id) ==
    LET test == get_test_by_id(test_id)
        op == CreateOp(type) IN
    /\ CanAccept
    /\ IF ~require_role("institution", p)
       THEN /\ resp' = Response(op, p, test_id, 403, <<>>, <<>>)
            /\ pending' = pending
       ELSE IF test = <<>>
       THEN /\ resp' = Response(op, p, test_id, 404, <<>>, <<>>)
            /\ pending' = pending
       ELSE /\ resp' = NoResponse
            /\ pending' = Accept(Request(op, p, "insert_question", test_id))
    /\ UNCHANGED <<profiles, tests, questions, mcq_options, theory_details,
                   coding_details, test_attempts>>

\* POST /questions/mcq, /theory, /coding: the route's checks
create_question(type, p, test_id) ==
    LET test == get_test_by_id(test_id)
        op == CreateOp(type) IN
    /\ CanAccept
    /\ IF ~require_role("institution", p)
       THEN /\ resp' = Response(op, p, test_id, 403, <<>>, <<>>)
            /\ pending' = pending
       ELSE IF test = <<>>
       THEN /\ resp' = Response(op, p, test_id, 404, <<>>, <<>>)
            /\ pending' = pending
       ELSE IF test[1].created_by # get_current_user(p).id
       THEN /\ resp' = Response(op, p, test_id, 403, <<>>, <<>>)
            /\ pending' = pending
       ELSE /\ resp' = NoResponse
            /\ pending' = Accept(Request(op, p, "insert_question", test_id))
    /\ UNCHANGED <<profiles, tests, questions, mcq_options, theory_details,
                   coding_details, test_attempts>>

\* QuestionService.create_*_question: the insert into questions; the route
\* answers 500 when it returns no row
create_question_insert(type, r) ==
    /\ InFlight(r)
    /\ r.op = CreateOp(type)
    /\ r.pc = "insert_question"
    /\ \/ \E question_data \in QuestionCreatePayloads :
            LET question == QuestionRow(r.target, type, question_data) IN
            /\ Len(questions) < MaxQuestions
            /\ questions' = Append(questions, question)
            /\ pending' = Finish(r) (+) SetToBag({
                    [Request(r.op, r.by, "insert_detail", question.id)
                        EXCEPT !.local = <<question, question_data, r.target>>]})
            /\ resp' = NoResponse
       \/ /\ questions' = questions
          /\ pending' = Finish(r)
          /\ resp' = Response(r.op, r.by, 0, 500, <<>>, <<>>)
    /\ UNCHANGED <<profiles, tests, mcq_options, theory_details,
                   coding_details, test_attempts>>

\* variant: the theory branch inserts into coding_details
DetailInsert_theory_into_coding(type, row) ==
    [mcq |-> IF type = "mcq" THEN Append(mcq_options, row) ELSE mcq_options,
     theory |-> theory_details,
     coding |-> IF type \in {"theory", "coding"}
                THEN Append(coding_details, row) ELSE coding_details]

\* the detail tables after an insert into the table of the type
DetailInsert(type, row) ==
    [mcq |-> IF type = "mcq" THEN Append(mcq_options, row) ELSE mcq_options,
     theory |-> IF type = "theory" THEN Append(theory_details, row)
                ELSE theory_details,
     coding |-> IF type = "coding" THEN Append(coding_details, row)
                ELSE coding_details]

\* variant: a failed detail insert is compensated by deactivating the base
\* row and answered 500
create_question_detail_rollback(type, r) ==
    LET question == r.local[1] IN
    /\ InFlight(r)
    /\ r.op = CreateOp(type)
    /\ r.pc = "insert_detail"
    /\ pending' = Finish(r)
    /\ \E detail_data \in DetailCreatePayloads(type) :
        LET row == DetailRow(question.id, DetailData(type, detail_data))
            after == DetailInsert(type, row)
            submitted == [test_id |-> r.local[3], question |-> r.local[2],
                          detail |-> detail_data] IN
        \/ /\ mcq_options' = after.mcq
           /\ theory_details' = after.theory
           /\ coding_details' = after.coding
           /\ questions' = questions
           /\ resp' = Response(r.op, r.by, question.id, 201,
                               <<Nest(question, DetailKey(type), row)>>,
                               submitted)
        \/ /\ UNCHANGED <<mcq_options, theory_details, coding_details>>
           /\ questions' = UpdateWhere(questions, "id", question.id,
                                       [present |-> {"is_active"},
                                        vals |-> [is_active |-> FALSE]])
           /\ resp' = Response(r.op, r.by, question.id, 500, <<>>, submitted)
    /\ UNCHANGED <<profiles, tests, test_attempts>>

\* QuestionService.create_*_question: the insert into the detail table, and
\* the route's answer
create_question_detail(type, r) ==
    LET question == r.local[1] IN
    /\ InFlight(r)
    /\ r.op = CreateOp(type)
    /\ r.pc = "insert_detail"
    /\ pending' = Finish(r)
    /\ \E detail_data \in DetailCreatePayloads(type) :
        LET row == DetailRow(question.id, DetailData(type, detail_data))
            after == DetailInsert(type, row)
            submitted == [test_id |-> r.local[3], question |-> r.local[2],
                          detail |-> detail_data] IN
        \/ /\ mcq_options' = after.mcq
           /\ theory_details' = after.theory
           /\ coding_details' = after.coding
           /\ resp' = Response(r.op, r.by, question.id, 201,
                               <<Nest(question, DetailKey(type), row)>>,
                               submitted)
        \/ /\ UNCHANGED <<mcq_options, theory_details, coding_details>>
           /\ resp' = Response(r.op, r.by, question.id, 201, <<question>>,
                               submitted)
    /\ UNCHANGED <<profiles, tests, questions, test_attempts>>

\* GET /questions/test/{test_id}: no authentication dependency
get_questions_by_test(test_id, question_type) ==
    LET test == get_test_by_id(test_id) IN
    /\ Ready
    /\ resp' = IF test = <<>>
               THEN Response("get_questions_by_test", "none", test_id, 404,
                             <<>>, <<>>)
               ELSE Response("get_questions_by_test", "none", test_id, 200,
                             QuestionService_get_questions_by_test(
                                 test_id, question_type),
                             question_type)
    /\ UNCHANGED <<profiles, tests, questions, mcq_options, theory_details,
                   coding_details, pending, test_attempts>>

\* GET /questions/{id}: no authentication dependency
get_question(question_id) ==
    LET question == get_question_by_id(question_id) IN
    /\ Ready
    /\ resp' = IF question = <<>>
               THEN Response("get_question", "none", question_id, 404, <<>>, <<>>)
               ELSE Response("get_question", "none", question_id, 200, question,
                             <<>>)
    /\ UNCHANGED <<profiles, tests, questions, mcq_options, theory_details,
                   coding_details, pending, test_attempts>>

\* PUT /questions/{id}, DELETE /questions/{id}: the route's checks
QuestionGate(op, p, question_id) ==
    LET question == get_question_by_id(question_id) IN
    /\ CanAccept
    /\ IF ~require_role("institution", p)
       THEN /\ resp' = Response(op, p, question_id, 403, <<>>, <<>>)
            /\ pending' = pending
       ELSE IF question = <<>>
       THEN /\ resp' = Response(op, p, question_id, 404, <<>>, <<>>)
            /\ pending' = pending
       ELSE /\ resp' = NoResponse
            /\ pending' = Accept(Request(op, p, "call", question_id))
    /\ UNCHANGED <<profiles, tests, questions, mcq_options, theory_details,
                   coding_details, test_attempts>>

\* QuestionService.update_question: the table after the call and its result
QuestionService_update_question(question_id, update_data) ==
    IF update_data.present = {}
    THEN questions
    ELSE UpdateWhere(questions, "id", question_id, update_data)

\* PUT /questions/{id}: the route's checks
update_question(p, question_id) == QuestionGate("update_question", p, question_id)

\* PUT /questions/{id}: the service call, its re-read, and the answer
update_question_call(r) ==
    /\ InFlight(r)
    /\ r.op = "update_question"
    /\ pending' = Finish(r)
    /\ UNCHANGED <<profiles, tests, mcq_options, theory_details,
                   coding_details, test_attempts>>
    /\ \E update_data \in QuestionUpdatePayloads :
        /\ questions' = QuestionService_update_question(r.target, update_data)
        /\ resp' = Response("update_question", r.by, r.target, 200,
                            get_question_by_id(r.target)', update_data)

\* variant: the checks without the comparison of question_type
update_details_no_type_check(type, p, question_id) ==
    LET question == get_question_by_id(question_id)
        op == UpdateDetailOp(type) IN
    /\ CanAccept
    /\ IF ~require_role("institution", p)
       THEN /\ resp' = Response(op, p, question_id, 403, <<>>, <<>>)
            /\ pending' = pending
       ELSE IF question = <<>>
       THEN /\ resp' = Response(op, p, question_id, 404, <<>>, <<>>)
            /\ pending' = pending
       ELSE /\ resp' = NoResponse
            /\ pending' = Accept(Request(op, p, "call", question_id))
    /\ UNCHANGED <<profiles, tests, questions, mcq_options, theory_details,
                   coding_details, test_attempts>>

\* PUT /questions/{id}/mcq-options, /theory-details, /coding-details: the
\* route's checks
update_details(type, p, question_id) ==
    LET question == get_question_by_id(question_id)
        op == UpdateDetailOp(type) IN
    /\ CanAccept
    /\ IF ~require_role("institution", p)
       THEN /\ resp' = Response(op, p, question_id, 403, <<>>, <<>>)
            /\ pending' = pending
       ELSE IF question = <<>>
       THEN /\ resp' = Response(op, p, question_id, 404, <<>>, <<>>)
            /\ pending' = pending
       ELSE IF question[1].question_type # type
       THEN /\ resp' = Response(op, p, question_id, 400, <<>>, <<>>)
            /\ pending' = pending
       ELSE /\ resp' = NoResponse
            /\ pending' = Accept(Request(op, p, "call", question_id))
    /\ UNCHANGED <<profiles, tests, questions, mcq_options, theory_details,
                   coding_details, test_attempts>>

\* QuestionService.update_mcq_options / update_theory_details /
\* update_coding_details: the detail tables after the call
QuestionService_update_details(type, question_id, update_data) ==
    LET table == DetailTable(type)
        updated == IF update_data.present = {} THEN table
                   ELSE UpdateWhere(table, "question_id", question_id,
                                    update_data)
    IN [mcq |-> IF type = "mcq" THEN updated ELSE mcq_options,
        theory |-> IF type = "theory" THEN updated ELSE theory_details,
        coding |-> IF type = "coding" THEN updated ELSE coding_details]

\* the service call of the three detail updates, and the answer
update_details_call(type, r) ==
    /\ InFlight(r)
    /\ r.op = UpdateDetailOp(type)
    /\ pending' = Finish(r)
    /\ UNCHANGED <<profiles, tests, questions, test_attempts>>
    /\ \E update_data \in DetailUpdatePayloads(type) :
        LET after == QuestionService_update_details(type, r.target, update_data)
        IN /\ mcq_options' = after.mcq
           /\ theory_details' = after.theory
           /\ coding_details' = after.coding
           /\ resp' = Response(r.op, r.by, r.target, 200,
                               get_question_by_id(r.target)',
                               update_data.present)

\* variant: the row is removed instead of marked
QuestionService_delete_question_hard(question_id) ==
    [rows |-> SelectSeq(questions, LAMBDA q : q.id # question_id),
     result |-> Len(SelectWhere(questions, "id", question_id)) > 0]

\* QuestionService.delete_question
QuestionService_delete_question(question_id) ==
    LET data == [present |-> {"is_active"}, vals |-> [is_active |-> FALSE]]
    IN [rows |-> UpdateWhere(questions, "id", question_id, data),
        result |-> Len(SelectWhere(questions, "id", question_id)) > 0]

\* DELETE /questions/{id}: the route's checks
delete_question(p, question_id) == QuestionGate("delete_question", p, question_id)

\* DELETE /questions/{id}: the service call and the answer
delete_question_call(r) ==
    /\ InFlight(r)
    /\ r.op = "delete_question"
    /\ pending' = Finish(r)
    /\ LET d == QuestionService_delete_question(r.target) IN
        /\ questions' = d.rows
        /\ resp' = IF ~d.result
                   THEN Response("delete_question", r.by, r.target, 500, <<>>,
                                 <<>>)
                   ELSE Response("delete_question", r.by, r.target, 200, <<>>,
                                 <<>>)
    /\ UNCHANGED <<profiles, tests, mcq_options, theory_details,
                   coding_details, test_attempts>>

-----------------------------------------------------------------------------
(* Specifications *)

Init ==
    /\ profiles = <<>>
    /\ tests = <<>>
    /\ questions = <<>>
    /\ mcq_options = <<>>
    /\ theory_details = <<>>
    /\ coding_details = <<>>
    /\ test_attempts = <<>>
    /\ pending = EmptyBag
    /\ resp = NoResponse

NextProfile ==
    \/ \E p \in ProfileCallers : create_profile(p)
    \/ \E r \in BagToSet(pending) : ProfileService_create_profile_check(r)
    \/ \E r \in BagToSet(pending) : ProfileService_create_profile_insert(r)
    \/ \E p \in ProfileCallers : get_my_profile(p)
    \/ \E p \in ProfileCallers : update_my_profile(p)
    \/ \E p \in ProfileCallers : delete_my_profile(p)
    \/ deliver

SpecProfile == Init /\ [][NextProfile]_vars

NextTest ==
    \/ \E p \in Principals : create_test(p)
    \/ \E test_id \in TestIds : get_test(test_id)
    \/ \E p \in Principals, test_id \in TestIds : update_test(p, test_id)
    \/ \E p \in Principals, test_id \in TestIds : publish_test(p, test_id)
    \/ \E p \in Principals, test_id \in TestIds : unpublish_test(p, test_id)
    \/ \E p \in Principals, test_id \in TestIds : delete_test(p, test_id)
    \/ \E r \in BagToSet(pending) : update_test_call(r)
    \/ \E r \in BagToSet(pending) : publish_test_call(r)
    \/ \E r \in BagToSet(pending) : unpublish_test_call(r)
    \/ \E r \in BagToSet(pending) : delete_test_call(r)
    \/ deliver

SpecTest == Init /\ [][NextTest]_vars

\* the create payloads kept to one value per field: marks 1, order_no 1,
\* correct_option A, no explanation
PlainQuestionCap ==
    \A i \in DOMAIN questions' :
        questions'[i].marks = 1 /\ questions'[i].order_no = 1

PlainDetailCap ==
    "correct_option" \in DOMAIN resp'.args.detail
        => /\ resp'.args.detail.correct_option = "A"
           /\ resp'.args.detail.explanation = NULL

\* the base question routes on MaxQuestions questions of MaxTests tests (the
\* detail updates are part of NextAssessment); at most MaxQuestionInflight
\* requests are in flight after the step
QuestionCap == BagCardinality(pending') <= MaxQuestionInflight

NextQuestion ==
    \/ \E p \in Principals : create_test(p)
    \/ \E type \in QuestionTypeEnum, p \in Principals, test_id \in TestIds :
            create_question(type, p, test_id) /\ QuestionCap
    \/ \E type \in QuestionTypeEnum, r \in BagToSet(pending) :
            create_question_insert(type, r) /\ PlainQuestionCap
    \/ \E type \in QuestionTypeEnum, r \in BagToSet(pending) :
            create_question_detail(type, r) /\ PlainDetailCap
    \/ \E test_id \in TestIds, question_type \in QuestionTypeEnum \cup {NULL} :
            get_questions_by_test(test_id, question_type)
    \/ \E question_id \in QuestionIds : get_question(question_id)
    \/ \E p \in Principals, question_id \in QuestionIds :
            update_question(p, question_id) /\ QuestionCap
    \/ \E r \in BagToSet(pending) : update_question_call(r)
    \/ \E p \in Principals, question_id \in QuestionIds :
            delete_question(p, question_id) /\ QuestionCap
    \/ \E r \in BagToSet(pending) : delete_question_call(r)
    \/ deliver

SpecQuestion == Init /\ [][NextQuestion]_vars

\* every route of /tests and /questions, on at most MaxAssessmentRows tests
\* and questions, one request at a time
AssessmentCap ==
    /\ Len(tests') <= MaxAssessmentRows
    /\ Len(questions') <= MaxAssessmentRows
    /\ BagCardinality(pending') <= MaxAssessmentRows

NextAssessment ==
    \/ \E p \in Principals : create_test(p) /\ AssessmentCap
    \/ \E test_id \in TestIds : get_test(test_id)
    \/ \E p \in Principals, page \in 1..MaxPage, limit \in 1..MaxLimit :
            get_my_tests(p, page, limit)
    \/ \E p \in Principals, test_id \in TestIds :
            update_test(p, test_id) /\ AssessmentCap
    \/ \E r \in BagToSet(pending) : update_test_call(r)
    \/ \E p \in Principals, test_id \in TestIds :
            publish_test(p, test_id) /\ AssessmentCap
    \/ \E r \in BagToSet(pending) : publish_test_call(r)
    \/ \E p \in Principals, test_id \in TestIds :
            unpublish_test(p, test_id) /\ AssessmentCap
    \/ \E r \in BagToSet(pending) : unpublish_test_call(r)
    \/ \E p \in Principals, test_id \in TestIds :
            delete_test(p, test_id) /\ AssessmentCap
    \/ \E r \in BagToSet(pending) : delete_test_call(r)
    \/ \E type \in QuestionTypeEnum, p \in Principals, test_id \in TestIds :
            create_question(type, p, test_id) /\ AssessmentCap
    \/ \E type \in QuestionTypeEnum, r \in BagToSet(pending) :
            create_question_insert(type, r) /\ AssessmentCap /\ PlainQuestionCap
    \/ \E type \in QuestionTypeEnum, r \in BagToSet(pending) :
            create_question_detail(type, r) /\ PlainDetailCap
    \/ \E question_id \in QuestionIds : get_question(question_id)
    \/ \E p \in Principals, question_id \in QuestionIds :
            update_question(p, question_id) /\ AssessmentCap
    \/ \E r \in BagToSet(pending) : update_question_call(r)
    \/ \E type \in QuestionTypeEnum, p \in Principals,
            question_id \in QuestionIds :
            update_details(type, p, question_id) /\ AssessmentCap
    \/ \E type \in QuestionTypeEnum, r \in BagToSet(pending) :
            update_details_call(type, r)
    \/ \E p \in Principals, question_id \in QuestionIds :
            delete_question(p, question_id) /\ AssessmentCap
    \/ \E r \in BagToSet(pending) : delete_question_call(r)
    \/ deliver

SpecAssessment == Init /\ [][NextAssessment]_vars

\* create, update and delete of profiles, tests and questions together, on
\* at most MaxAssessmentRows rows per table, one request at a time; city
\* and is_published are kept to one value
LifecycleCap ==
    /\ Len(profiles') <= MaxAssessmentRows
    /\ Len(tests') <= MaxAssessmentRows
    /\ Len(questions') <= MaxAssessmentRows
    /\ BagCardinality(pending') <= MaxAssessmentRows
    /\ \A i \in DOMAIN profiles' : profiles'[i].city = NULL
    /\ \A i \in DOMAIN tests' : tests'[i].is_published = DefaultIsPublished

NextLifecycle ==
    \/ \E p \in ProfileCallers : create_profile(p) /\ LifecycleCap
    \/ \E r \in BagToSet(pending) : ProfileService_create_profile_check(r)
    \/ \E r \in BagToSet(pending) :
            ProfileService_create_profile_insert(r) /\ LifecycleCap
    \/ \E p \in ProfileCallers : update_my_profile(p) /\ LifecycleCap
    \/ \E p \in ProfileCallers : delete_my_profile(p)
    \/ \E p \in Principals : create_test(p) /\ LifecycleCap
    \/ \E p \in Principals, test_id \in TestIds :
            update_test(p, test_id) /\ LifecycleCap
    \/ \E r \in BagToSet(pending) : update_test_call(r) /\ LifecycleCap
    \/ \E p \in Principals, test_id \in TestIds :
            delete_test(p, test_id) /\ LifecycleCap
    \/ \E r \in BagToSet(pending) : delete_test_call(r)
    \/ \E type \in QuestionTypeEnum, p \in Principals, test_id \in TestIds :
            create_question(type, p, test_id) /\ LifecycleCap
    \/ \E type \in QuestionTypeEnum, r \in BagToSet(pending) :
            create_question_insert(type, r) /\ LifecycleCap /\ PlainQuestionCap
    \/ \E type \in QuestionTypeEnum, r \in BagToSet(pending) :
            create_question_detail(type, r) /\ PlainDetailCap
    \/ \E p \in Principals, question_id \in QuestionIds :
            update_question(p, question_id) /\ LifecycleCap
    \/ \E r \in BagToSet(pending) : update_question_call(r)
    \/ \E p \in Principals, question_id \in QuestionIds :
            delete_question(p, question_id) /\ LifecycleCap
    \/ \E r \in BagToSet(pending) : delete_question_call(r)
    \/ deliver

SpecLifecycle == Init /\ [][NextLifecycle]_vars

\* question creation with every create payload, read back by id, on at most
\* MaxAssessmentRows questions, one request at a time
NextRoundTrip ==
    \/ \E p \in Principals : create_test(p)
    \/ \E type \in QuestionTypeEnum, p \in Principals, test_id \in TestIds :
            create_question(type, p, test_id) /\ QuestionCap
    \/ \E type \in QuestionTypeEnum, r \in BagToSet(pending) :
            /\ create_question_insert(type, r)
            /\ Len(questions') <= MaxAssessmentRows
    \/ \E type \in QuestionTypeEnum, r \in BagToSet(pending) :
            create_question_detail(type, r)
    \/ \E question_id \in QuestionIds : get_question(question_id)
    \/ deliver

SpecRoundTrip == Init /\ [][NextRoundTrip]_vars

\* the list operations applied to tables the write routes can leave behind:
\* row i has id and created_at i, any owner and any flags
ReadProfileTables ==
    UNION { { [i \in 1..n |->
                 [id |-> i, user_id |-> f[i].user_id, role |-> f[i].role,
                  city |-> f[i].city, is_active |-> f[i].is_active,
                  created_at |-> i]] :
              f \in [1..n -> [user_id : ProfileCallers, role : RoleEnum,
                              city : CityValues \cup {NULL},
                              is_active : BOOLEAN]] } :
            n \in 0..MaxReadRows }

ReadTestTables ==
    UNION { { [i \in 1..n |->
                 [id |-> i, created_by |-> f[i].created_by,
                  is_active |-> f[i].is_active,
                  is_published |-> f[i].is_published, created_at |-> i]] :
              f \in [1..n -> [created_by : {"i1", "i2"}, is_active : BOOLEAN,
                              is_published : BOOLEAN]] } :
            n \in 0..MaxReadRows }

\* get_test_stats applied to the questions the question routes can leave
\* behind (orphans included) and to any attempts of the stored tests
InitStats ==
    /\ \E n \in 1..MaxTests, k \in 0..MaxReadRows, a \in 0..MaxAttempts :
        \E f \in [1..k -> [test_id : 1..n, question_type : QuestionTypeEnum,
                            marks : 1..MaxMarks, is_active : BOOLEAN]],
           g \in [1..a -> 1..n] :
            /\ tests = [i \in 1..n |->
                            [id |-> i, created_by |-> "i1",
                             is_active |-> DefaultIsActive,
                             is_published |-> DefaultIsPublished,
                             created_at |-> i]]
            /\ questions = [i \in 1..k |->
                                [id |-> i, test_id |-> f[i].test_id,
                                 question_type |-> f[i].question_type,
                                 question_text |-> "text",
                                 marks |-> f[i].marks,
                                 order_no |-> 1, is_active |-> f[i].is_active]]
            /\ test_attempts = [i \in 1..a |-> [id |-> i, test_id |-> g[i]]]
    /\ profiles = <<>>
    /\ mcq_options = <<>>
    /\ theory_details = <<>>
    /\ coding_details = <<>>
    /\ pending = EmptyBag
    /\ resp = NoResponse

NextStats ==
    \/ \E test_id \in TestIds : get_test_stats_route(test_id)
    \/ deliver

SpecStats == InitStats /\ [][NextStats]_vars

\* the question reads applied to the tables the question routes can leave
\* behind: questions of two tests, of any type, order_no and is_active, each
\* with its detail row or, an orphan, without
InitList ==
    /\ \E k \in 0..MaxReadRows :
        \E f \in [1..k -> [test_id : TestIds, question_type : QuestionTypeEnum,
                            order_no : 1..MaxOrderNo, is_active : BOOLEAN,
                            detail : BOOLEAN]] :
            LET stored(type) ==
                    SelectSeq([i \in 1..k |-> i],
                              LAMBDA i : f[i].question_type = type /\ f[i].detail)
                data(type) ==
                    DetailData(type, CHOOSE d \in DetailCreatePayloads(type) : TRUE)
                rows(type) ==
                    [j \in DOMAIN stored(type) |->
                        DetailRow(stored(type)[j], data(type))]
            IN /\ questions = [i \in 1..k |->
                                [id |-> i, test_id |-> f[i].test_id,
                                 question_type |-> f[i].question_type,
                                 question_text |-> "text", marks |-> 1,
                                 order_no |-> f[i].order_no,
                                 is_active |-> f[i].is_active]]
               /\ mcq_options = rows("mcq")
               /\ theory_details = rows("theory")
               /\ coding_details = rows("coding")
    /\ tests = [i \in TestIds |->
                    [id |-> i, created_by |-> "i1",
                     is_active |-> DefaultIsActive,
                     is_published |-> DefaultIsPublished, created_at |-> i]]
    /\ profiles = <<>>
    /\ test_attempts = <<>>
    /\ pending = EmptyBag
    /\ resp = NoResponse

NextList ==
    \/ \E test_id \in TestIds, question_type \in QuestionTypeEnum \cup {NULL} :
            get_questions_by_test(test_id, question_type)
    \/ \E question_id \in 1..MaxReadRows : get_question(question_id)
    \/ deliver

SpecList == InitList /\ [][NextList]_vars

InitRead ==
    /\ \/ profiles \in ReadProfileTables /\ tests = <<>>
       \/ profiles = <<>> /\ tests \in ReadTestTables
    /\ questions = <<>>
    /\ mcq_options = <<>>
    /\ theory_details = <<>>
    /\ coding_details = <<>>
    /\ test_attempts = <<>>
    /\ pending = EmptyBag
    /\ resp = NoResponse

NextRead ==
    \/ \E page \in 1..MaxPage, limit \in 1..MaxLimit,
          is_active \in {NULL, "true", "false"}, role \in RoleEnum \cup {NULL},
          city \in CityValues \cup {NULL} :
            get_all_profiles(page, limit, is_active, role, city)
    \/ \E page \in 1..MaxPage, limit \in 1..MaxLimit : get_all_users(page, limit)
    \/ \E page \in 1..MaxPage, limit \in 1..MaxLimit :
            get_all_institutions(page, limit)
    \/ \E user_id \in ProfileCallers : get_profile_by_user_id_route(user_id)
    \/ \E page \in 1..MaxPage, limit \in 1..MaxLimit,
          is_published \in {NULL, "true", "false"} :
            get_all_tests(page, limit, is_published)
    \/ \E p \in Principals, page \in 1..MaxPage, limit \in 1..MaxLimit :
            get_my_tests(p, page, limit)
    \/ deliver

SpecRead == InitRead /\ [][NextRead]_vars

-----------------------------------------------------------------------------
(* Claims about profiles *)

HasProfile(p) == \E i \in DOMAIN profiles : profiles[i].user_id = p

C2_DuplicateCreateRejected ==
    [][\A p \in ProfileCallers :
         HasProfile(p) =>
           /\ CopiesIn(Request("create_profile", p, "check", 0), pending')
                <= CopiesIn(Request("create_profile", p, "check", 0), pending)
           /\ (create_profile(p) =>
                 /\ resp'.op = "create_profile"
                 /\ resp'.status = 400
                 /\ profiles' = profiles)]_vars

\* C2 witness: a create was answered 400 for a principal whose only profile
\* is soft-deleted.
C2_Witness ==
    /\ resp.op = "create_profile"
    /\ resp.status = 400
    /\ HasProfile(resp.by)
    /\ \A i \in DOMAIN profiles :
          profiles[i].user_id = resp.by => ~profiles[i].is_active

ListedIds(pages) == {row.id : row \in UNION {{p[k] : k \in DOMAIN p} : p \in pages}}

C11_ProfileUpdateWritesPresentFields ==
    [][resp'.op = "update_my_profile" =>
        /\ resp'.status = IF HasProfile(resp'.by) THEN 200 ELSE 404
        /\ Len(profiles') = Len(profiles)
        /\ \A i \in DOMAIN profiles : \A f \in DOMAIN profiles[i] :
              profiles'[i][f] =
                  IF profiles[i].user_id = resp'.by /\ f \in resp'.args.present
                  THEN resp'.args.vals[f]
                  ELSE profiles[i][f]
        /\ resp'.args.present = {} => profiles' = profiles
        /\ (resp'.args.present = {} /\ HasProfile(resp'.by))
              => /\ Len(resp'.data) = 1
                 /\ resp'.data[1].user_id = resp'.by
                 /\ \E i \in DOMAIN profiles : resp'.data[1] = profiles[i]
        /\ ~HasProfile(resp'.by) => profiles' = profiles /\ resp'.data = <<>>]_vars

\* C11 witness: an update carrying only city was answered 200 while another
\* user's profile is stored and the caller's role is not the blank value
C11_Witness ==
    /\ resp.op = "update_my_profile"
    /\ resp.status = 200
    /\ resp.args.present = {"city"}
    /\ resp.data[1].role = "institution"
    /\ \E i \in DOMAIN profiles : profiles[i].user_id # resp.by



TestMutations == {"update_test", "publish_test", "unpublish_test", "delete_test"}

\* C3: a request of institution B to update, publish, unpublish or delete a
\* test created by institution A # B is answered 403 and leaves the tests
\* table unchanged; no such request is ever in flight, and under any
\* interleaving a test row changes only in a step that completes a request
\* of its creator; GET /tests/{id} of an existing test answers 200 with it.
C3_OnlyOwnerMutatesTest ==
    [][/\ (/\ resp'.op \in TestMutations
           /\ RoleOf(resp'.by) = "institution"
           /\ resp'.target \in DOMAIN tests
           /\ tests[resp'.target].created_by # resp'.by) =>
             /\ resp'.status = 403
             /\ tests' = tests
             /\ pending' = pending
       /\ \A r \in BagToSet(pending') :
            r.op \in TestMutations => tests'[r.target].created_by = r.by
       /\ \A id \in DOMAIN tests :
            tests'[id] # tests[id] =>
              \E r \in BagToSet(pending) :
                  /\ r.op \in TestMutations
                  /\ r.target = id
                  /\ r.by = tests[id].created_by
                  /\ CopiesIn(r, pending') < CopiesIn(r, pending)
       /\ (resp'.op = "get_test" /\ resp'.target \in DOMAIN tests) =>
              /\ resp'.status = 200
              /\ resp'.data[1].id = resp'.target
              /\ resp'.data[1].created_by = tests[resp'.target].created_by]_vars

\* C3 witness: institution B was just refused (403) on a test of A that a
\* request of A has changed since its creation.
C3_Witness ==
    /\ resp.op \in TestMutations
    /\ resp.status = 403
    /\ RoleOf(resp.by) = "institution"
    /\ resp.target \in DOMAIN tests
    /\ tests[resp.target].created_by # resp.by
    /\ tests[resp.target].is_published

\* the ids of the active tests that match the list filters
ActiveTestsMatching(is_published, created_by) ==
    { i \in DOMAIN tests :
        /\ tests[i].is_active
        /\ (is_published # NULL => tests[i].is_published = (is_published = "true"))
        /\ (created_by # NULL => tests[i].created_by = created_by) }

\* C6: a test with is_active = false is in no page of GET /tests (any
\* page, limit, is_published filter) nor of GET /tests/my-tests, and is not
\* counted in their total, while get by id still returns it.
C6_InactiveTestsNotListed ==
    \A id \in DOMAIN tests :
        ~tests[id].is_active =>
          /\ \A page \in 1..MaxPage, limit \in 1..MaxLimit :
                /\ \A is_published \in {NULL, "true", "false"} :
                      LET res == TestService_get_all_tests(page, limit,
                                                          is_published, NULL)
                      IN /\ \A k \in DOMAIN res[1] : res[1][k].id # id
                         /\ res[2] = Cardinality(
                                ActiveTestsMatching(is_published, NULL))
                /\ \A p \in Principals :
                      LET res == TestService_get_all_tests(page, limit, NULL, p)
                      IN /\ \A k \in DOMAIN res[1] : res[1][k].id # id
                         /\ res[2] = Cardinality(ActiveTestsMatching(NULL, p))
          /\ get_test_by_id(id) # <<>>
          /\ get_test_by_id(id)[1].id = id
          /\ get_test_by_id(id)[1].is_active = FALSE

\* C6 witness: a soft-deleted test beside an active one of the same creator,
\* after the delete was answered 200.
C6_Witness ==
    /\ resp.op = "delete_test"
    /\ resp.status = 200
    /\ \E i, j \in DOMAIN tests :
          /\ ~tests[i].is_active
          /\ tests[j].is_active
          /\ tests[i].created_by = tests[j].created_by

\* C10: PUT /tests/{id} by the owner with an empty payload writes nothing,
\* leaves every table unchanged, and answers with the test object that
\* GET /tests/{id} returns in the state just before the call, question_count
\* included.
C10_EmptyTestUpdateIsNoOp ==
    [][(/\ resp'.op = "update_test"
        /\ resp'.status = 200
        /\ resp'.args.present = {})
       => /\ tests' = tests
          /\ UNCHANGED <<profiles, questions, mcq_options, theory_details,
                         coding_details>>
          /\ \E i \in DOMAIN tests :
                /\ tests[i].id = resp'.target
                /\ tests[i].created_by = resp'.by
                /\ resp'.data = <<[f \in DOMAIN tests[i] \cup {"question_count"} |->
                        IF f = "question_count"
                        THEN Cardinality({j \in DOMAIN questions :
                                            questions[j].test_id = tests[i].id})
                        ELSE tests[i][f]]>>]_vars

\* C10 witness: an empty update of a test that has a question was answered
C10_Witness ==
    /\ resp.op = "update_test"
    /\ resp.status = 200
    /\ resp.args.present = {}
    /\ resp.data # <<>>
    /\ resp.data[1].question_count = 1

-----------------------------------------------------------------------------
(* Claims about questions *)

CreateOps == {CreateOp(type) : type \in QuestionTypeEnum}

\* the creator of the test with this id, NULL when there is no such test
CreatorOf(test_id) ==
    IF \E i \in DOMAIN tests : tests[i].id = test_id
    THEN tests[CHOOSE i \in DOMAIN tests : tests[i].id = test_id].created_by
    ELSE NULL

DetailRows == Len(mcq_options) + Len(theory_details) + Len(coding_details)

\* C4: a question create by an institution is answered 404 when the test
\* does not exist and 403 when the institution is not the test's creator, and
\* neither inserts a row; a row enters questions or a detail table only in a
\* step of a create request made by the creator of the referenced test.
C4_OnlyCreatorAddsQuestions ==
    [][/\ (/\ resp' # NoResponse
           /\ resp'.op \in CreateOps
           /\ RoleOf(resp'.by) = "institution"
           /\ pending' = pending)
          => /\ CreatorOf(resp'.target) # resp'.by
             /\ resp'.status = IF CreatorOf(resp'.target) = NULL THEN 404 ELSE 403
             /\ UNCHANGED <<questions, mcq_options, theory_details,
                            coding_details>>
       /\ \A r \in BagToSet(pending') :
            (r.op \in CreateOps /\ CopiesIn(r, pending') > CopiesIn(r, pending))
            => CreatorOf(IF r.pc = "insert_question" THEN r.target
                         ELSE r.local[1].test_id) = r.by
       /\ Len(questions') > Len(questions)
          => \E r \in BagToSet(pending) :
                /\ r.op \in CreateOps
                /\ CreatorOf(r.target) = r.by
                /\ questions'[Len(questions')].test_id = r.target
       /\ DetailRows' > DetailRows
          => \E r \in BagToSet(pending), i \in DOMAIN questions :
                /\ r.op \in CreateOps
                /\ r.pc = "insert_detail"
                /\ questions[i].id = r.target
                /\ CreatorOf(questions[i].test_id) = r.by]_vars

\* C4 witness: an institution that did not create the existing test was
\* refused, while the creator's question is stored
C4_Witness ==
    /\ resp.op \in CreateOps
    /\ resp.status = 403
    /\ RoleOf(resp.by) = "institution"
    /\ CreatorOf(resp.target) \notin {NULL, resp.by}
    /\ \E i \in DOMAIN questions : questions[i].test_id = resp.target

\* the role-gated operations: every POST/PUT/DELETE under /tests and
\* /questions, and GET /tests/my-tests
GatedOps ==
    {"create_test", "update_test", "publish_test", "unpublish_test",
     "delete_test", "get_my_tests", "update_question", "delete_question"}
    \cup CreateOps \cup {UpdateDetailOp(type) : type \in QuestionTypeEnum}

\* C5: a role-gated operation invoked by a principal whose role is not
\* institution is answered 403 without any store write and is never taken in
\* for a later store call.
C5_NonInstitutionForbidden ==
    [][/\ (/\ resp' # NoResponse
           /\ resp'.op \in GatedOps
           /\ RoleOf(resp'.by) # "institution")
          => /\ resp'.status = 403
             /\ UNCHANGED <<tests, questions, mcq_options, theory_details,
                            coding_details, pending>>
       /\ \A r \in BagToSet(pending') :
            r.op \in GatedOps => RoleOf(r.by) = "institution"
       /\ \A p \in Principals :
            (RoleOf(p) # "institution" /\ Ready /\ BagCardinality(pending) = 0)
            => \A test_id \in TestIds, question_id \in QuestionIds :
                 /\ ENABLED create_test(p)
                 /\ ENABLED update_test(p, test_id)
                 /\ ENABLED delete_question(p, question_id)]_vars

\* C5 witness: a user-role principal was refused the update of an existing
\* question of an existing test
C5_Witness ==
    /\ resp.op = "update_question"
    /\ resp.status = 403
    /\ RoleOf(resp.by) = "user"
    /\ \E i \in DOMAIN questions : questions[i].id = resp.target

\* the ids of the questions that are soft-deleted
InactiveQuestionIds ==
    {questions[i].id : i \in {j \in DOMAIN questions : ~questions[j].is_active}}

\* the rows of the question's detail table that belong to it
DetailsOf(q) ==
    {row \in {DetailTable(q.question_type)[i] :
                i \in DOMAIN DetailTable(q.question_type)} :
        row.question_id = q.id}

\* C8: GET /questions/test/{test_id}, with or without a type filter, never
\* lists a question whose is_active is false, and GET /questions/{id}
\* answers 200 with the row of that question and, nested, its detail record.
C8_InactiveQuestionsNotListed ==
    [][/\ (resp'.op = "get_questions_by_test" /\ resp'.status = 200)
          => \A k \in DOMAIN resp'.data :
                resp'.data[k].id \notin InactiveQuestionIds
       /\ (resp'.op = "get_question" /\ resp'.target \in InactiveQuestionIds)
          => /\ resp'.status = 200
             /\ \E i \in DOMAIN questions :
                  /\ questions[i].id = resp'.target
                  /\ \A f \in DOMAIN questions[i] :
                        resp'.data[1][f] = questions[i][f]
                  /\ \A row \in DetailsOf(questions[i]) :
                        /\ DetailKey(questions[i].question_type)
                              \in DOMAIN resp'.data[1]
                        /\ resp'.data[1][DetailKey(questions[i].question_type)]
                              = row]_vars

\* C8 witness: the list of a test with an active and a soft-deleted question
\* was answered with one row
C8_Witness ==
    /\ resp.op = "get_questions_by_test"
    /\ resp.status = 200
    /\ Len(resp.data) = 1
    /\ \E i \in DOMAIN questions :
          /\ questions[i].test_id = resp.target
          /\ questions[i].id \in InactiveQuestionIds
          /\ DetailsOf(questions[i]) # {}

-----------------------------------------------------------------------------
(* Claims about the list operations *)

\* the filter set of a profile list request, as the client states it
ProfileFilter(r) ==
    IF r.op = "get_all_users"
    THEN [is_active |-> NULL, role |-> "user", city |-> NULL]
    ELSE IF r.op = "get_all_institutions"
    THEN [is_active |-> NULL, role |-> "institution", city |-> NULL]
    ELSE [is_active |-> r.args.is_active, role |-> r.args.role,
          city |-> r.args.city]

\* the positions of the profiles that match the filter set
MatchingProfiles(filter) ==
    {i \in DOMAIN profiles :
        /\ filter.is_active = "true" => profiles[i].is_active
        /\ filter.is_active = "false" => ~profiles[i].is_active
        /\ filter.role # NULL => profiles[i].role = filter.role
        /\ filter.city # NULL => profiles[i].city = filter.city}

\* the positions of the tests a test list request ranges over
MatchingTests(r) ==
    {i \in DOMAIN tests :
        /\ tests[i].is_active
        /\ r.op = "get_my_tests" => tests[i].created_by = r.by
        /\ (r.op = "get_all_tests" /\ r.args.is_published = "true")
              => tests[i].is_published
        /\ (r.op = "get_all_tests" /\ r.args.is_published = "false")
              => ~tests[i].is_published}

\* data is the page of the rows of table at the positions in matching,
\* newest first, and total is the number of those rows
IsPageOf(r, table, matching) ==
    LET first == (r.args.page - 1) * r.args.limit
        newer(i) == Cardinality({j \in matching :
                                    table[j].created_at > table[i].created_at})
    IN /\ r.total = Cardinality(matching)
       /\ Len(r.data) <= r.args.limit
       /\ Len(r.data) = Cardinality({i \in matching :
                            /\ newer(i) >= first
                            /\ newer(i) <= first + r.args.limit - 1})
       /\ \A k \in DOMAIN r.data :
            \E i \in matching : /\ r.data[k] = table[i]
                                /\ newer(i) = first + k - 1

\* C9: every profile and test list answer holds exactly the rows at positions
\* (page-1)*limit .. (page-1)*limit + limit - 1 of the matching rows, newest
\* first, and its total is the number of all matching rows.
C9_PaginationWindow ==
    [][/\ resp'.op \in {"get_all_profiles", "get_all_users",
                        "get_all_institutions"}
          => IsPageOf(resp', profiles, MatchingProfiles(ProfileFilter(resp')))
       /\ (resp'.op \in {"get_all_tests", "get_my_tests"} /\ resp'.status = 200)
          => IsPageOf(resp', tests, MatchingTests(resp'))]_vars

\* C9 witness: the second page of two of a profile list with three matching
\* rows was answered with its one row
C9_Witness ==
    /\ resp.op = "get_all_profiles"
    /\ resp.args.page = 2
    /\ resp.args.limit = 2
    /\ resp.total = 3
    /\ Len(resp.data) = 1
    /\ resp.data[1].created_at = 1

-----------------------------------------------------------------------------
(* Claims about question creation *)

\* the string a client submits for a member of CorrectOptionEnum
SubmittedOption(member) == IF member = "A" THEN "a" ELSE "b"

\* the ids of the questions that have a row in mcq_options
WithOptions == {mcq_options[i].question_id : i \in DOMAIN mcq_options}

\* C12: once POST /questions/mcq has answered 201 with both inserts done,
\* the question read by the returned id has question_type mcq, the submitted
\* test_id, question_text, marks and order_no, and nested options equal to
\* the submitted option_a..option_d, correct_option and explanation; and
\* GET /questions/{id} answers with exactly that read.
C12_McqRoundTrip ==
    /\ []((/\ resp.op = "create_mcq_question"
           /\ resp.status = 201
           /\ resp.target \in WithOptions)
          => /\ Len(get_question_by_id(resp.target)) = 1
             /\ LET got == get_question_by_id(resp.target)[1]
                    sent == resp.args
                IN /\ got.id = resp.data[1].id
                   /\ got.question_type = "mcq"
                   /\ got.test_id = sent.test_id
                   /\ \A f \in {"question_text", "marks", "order_no"} :
                         got[f] = sent.question[f]
                   /\ "options" \in DOMAIN got
                   /\ \A f \in {"option_a", "option_b", "option_c",
                                 "option_d", "explanation"} :
                         got.options[f] = sent.detail[f]
                   /\ got.options.correct_option
                         = SubmittedOption(sent.detail.correct_option))
    /\ [][(resp'.op = "get_question" /\ resp'.status = 200)
            => resp'.data = get_question_by_id(resp'.target)]_vars

\* C12 witness: an MCQ with marks 2, order_no 2, correct option b and an
\* explanation was created under the second test
C12_Witness ==
    /\ resp.op = "create_mcq_question"
    /\ resp.status = 201
    /\ resp.target \in WithOptions
    /\ resp.args.test_id = 2
    /\ resp.args.question.marks = 2
    /\ resp.args.question.order_no = 2
    /\ resp.args.detail.correct_option = "B"
    /\ resp.args.detail.explanation = "why"

-----------------------------------------------------------------------------
(* Claims about the detail updates *)

UpdateDetailOps == {"update_mcq_options", "update_theory_details",
                    "update_coding_details"}

\* the question type an endpoint of UpdateDetailOps is for
EndpointType(op) == IF op = "update_mcq_options" THEN "mcq"
                    ELSE IF op = "update_theory_details" THEN "theory"
                    ELSE "coding"

\* the question_type of the question with this id, NULL when there is none
TypeOf(question_id) ==
    IF \E i \in DOMAIN questions : questions[i].id = question_id
    THEN questions[CHOOSE i \in DOMAIN questions :
                      questions[i].id = question_id].question_type
    ELSE NULL

\* C13: a detail update by an institution on a question of another type is
\* answered 400 and leaves questions and the three detail tables unchanged;
\* such a request never reaches the store call, and the rows of a detail
\* table are rewritten only by a request of the table's own endpoint.
C13_TypeMismatchRejected ==
    [][/\ (/\ resp' # NoResponse
           /\ resp'.op \in UpdateDetailOps
           /\ RoleOf(resp'.by) = "institution"
           /\ TypeOf(resp'.target) \notin {NULL, EndpointType(resp'.op)})
          => /\ resp'.status = 400
             /\ UNCHANGED <<questions, mcq_options, theory_details,
                            coding_details, pending>>
       /\ \A r \in BagToSet(pending') :
            r.op \in UpdateDetailOps => TypeOf(r.target) = EndpointType(r.op)
       /\ \A type \in QuestionTypeEnum :
            (/\ Len(DetailTable(type)') = Len(DetailTable(type))
             /\ DetailTable(type)' # DetailTable(type))
            => \E r \in BagToSet(pending) :
                  /\ r.op \in UpdateDetailOps
                  /\ EndpointType(r.op) = type
                  /\ pending' = pending (-) SetToBag({r})]_vars

\* C13 witness: PUT /questions/{id}/mcq-options on a theory question that has
\* its detail row was answered 400
C13_Witness ==
    /\ resp.op = "update_mcq_options"
    /\ resp.status = 400
    /\ TypeOf(resp.target) = "theory"
    /\ \E i \in DOMAIN theory_details :
          theory_details[i].question_id = resp.target

-----------------------------------------------------------------------------
(* Claims about the test statistics *)

\* the positions of the active questions of a test, of one type or of any
ActiveQuestionsOf(test_id, type) ==
    {i \in DOMAIN questions :
        /\ questions[i].test_id = test_id
        /\ questions[i].is_active
        /\ type # NULL => questions[i].question_type = type}

\* the sum of marks over the questions at a set of positions
RECURSIVE MarksOver(_)
MarksOver(positions) ==
    IF positions = {} THEN 0
    ELSE LET i == CHOOSE j \in positions : TRUE
         IN questions[i].marks + MarksOver(positions \ {i})

\* C14: GET /tests/{id}/stats of an existing test answers with the number of
\* active questions of the test per type, their sum as total_questions, the
\* sum of their marks as total_marks, and the number of test_attempts rows
\* of the test as total_attempts.
C14_TestStats ==
    [][(resp'.op = "get_test_stats" /\ resp'.status = 200) =>
        LET stats == resp'.data[1]
            id == resp'.target
        IN /\ stats.mcq_count = Cardinality(ActiveQuestionsOf(id, "mcq"))
           /\ stats.theory_count = Cardinality(ActiveQuestionsOf(id, "theory"))
           /\ stats.coding_count = Cardinality(ActiveQuestionsOf(id, "coding"))
           /\ stats.total_questions
                = stats.mcq_count + stats.theory_count + stats.coding_count
           /\ stats.total_marks = MarksOver(ActiveQuestionsOf(id, NULL))
           /\ stats.total_attempts
                = Cardinality({i \in DOMAIN test_attempts :
                                 test_attempts[i].test_id = id})]_vars

\* C14 witness: the statistics of a test with an active coding question of
\* marks 2, a soft-deleted question, a question of another test and one
\* attempt
C14_Witness ==
    /\ resp.op = "get_test_stats"
    /\ resp.status = 200
    /\ resp.data[1].coding_count = 1
    /\ resp.data[1].total_questions = 1
    /\ resp.data[1].total_marks = 2
    /\ resp.data[1].total_attempts = 1
    /\ \E i \in DOMAIN questions : /\ questions[i].test_id = resp.target
                                   /\ ~questions[i].is_active
    /\ \E i \in DOMAIN questions : questions[i].test_id # resp.target

-----------------------------------------------------------------------------
(* Claims about failed writes and missing resources *)

\* the create endpoints
CreateEndpoints == {"create_profile", "create_test"} \cup CreateOps

\* the number of rows stored, over all tables a create endpoint inserts into
StoredRows ==
    Len(profiles) + Len(tests) + Len(questions) + DetailRows

\* C15: a create endpoint whose insert stored no row (it was not refused with
\* 400, 403 or 404 before the insert) answers 500, never 201; in particular
\* a question create whose detail insert returns no row is not answered 201.
C15_FailedInsertAnswers500 ==
    [][(/\ resp'.op \in CreateEndpoints
        /\ resp'.status \notin {400, 403, 404}
        /\ StoredRows' = StoredRows)
       => resp'.status = 500]_vars

\* the operations addressed to the caller's profile, to a test id and to a
\* question id
MyProfileOps == {"get_my_profile", "update_my_profile", "delete_my_profile"}

TestIdOps == {"get_test", "get_test_stats"} \cup TestMutations

QuestionIdOps ==
    {"get_question", "update_question", "delete_question"} \cup UpdateDetailOps

\* the resource an answered operation was addressed to is not stored
MissingResource(op, by, target) ==
    \/ op \in MyProfileOps /\ ~HasProfile(by)
    \/ op = "get_profile_by_user_id" /\ ~HasProfile(target)
    \/ op \in TestIdOps /\ target \notin {tests[i].id : i \in DOMAIN tests}
    \/ /\ op \in QuestionIdOps
       /\ target \notin {questions[i].id : i \in DOMAIN questions}

\* C16: an operation addressed to a missing resource (no profile of the
\* caller or of the user id, an unknown test id, an unknown question id), from
\* a caller the role gate lets through, is answered 404 and changes no table.
C16_MissingResourceAnswers404 ==
    [][(/\ resp'.op \in MyProfileOps \cup {"get_profile_by_user_id"}
                        \cup TestIdOps \cup QuestionIdOps
        /\ resp'.status # 403
        /\ MissingResource(resp'.op, resp'.by, resp'.target))
       => /\ resp'.status = 404
          /\ UNCHANGED <<profiles, tests, questions, mcq_options,
                         theory_details, coding_details, test_attempts>>]_vars

-----------------------------------------------------------------------------
(* Claims about the fields of a test *)

\* the stored tests whose is_published differs after the step
PublicationChanged ==
    {i \in DOMAIN tests : tests'[i].is_published # tests[i].is_published}

\* C17 as stated: is_published of a stored test changes only in a step that
\* is a publish or an unpublish of that test.
C17_OnlyPublishChangesIsPublished ==
    [][\A i \in PublicationChanged :
        /\ resp'.op \in {"publish_test", "unpublish_test"}
        /\ resp'.target = tests[i].id]_vars

\* C17: is_published of a stored test changes only in a step that is a
\* publish or an unpublish of that test, or a PUT /tests/{id} of that test
\* whose payload carries is_published; the step is the creator's, and publish
\* leaves TRUE, unpublish FALSE.
C17_IsPublishedChangesByPublishOrUpdate ==
    [][\A i \in PublicationChanged :
        /\ resp'.target = tests[i].id
        /\ resp'.by = tests[i].created_by
        /\ resp'.status = 200
        /\ \/ resp'.op = "publish_test" /\ tests'[i].is_published
           \/ resp'.op = "unpublish_test" /\ ~tests'[i].is_published
           \/ resp'.op = "update_test" /\ "is_published" \in resp'.args.present]_vars

\* C17 witness: a PUT whose payload carries only is_published was answered
\* for a test that has a question, and the test is stored and returned
\* published
C17_Witness ==
    /\ resp.op = "update_test"
    /\ resp.status = 200
    /\ resp.args.present = {"is_published"}
    /\ \E i \in DOMAIN tests : /\ tests[i].id = resp.target
                               /\ tests[i].is_published
                               /\ resp.data[1].is_published = TRUE
    /\ \E j \in DOMAIN questions : questions[j].test_id = resp.target

\* C18: a row enters tests only by POST /tests, with created_by the id of
\* the authenticated institution principal that issued it, and no step
\* changes created_by of a stored test.
C18_CreatedByImmutable ==
    [][/\ \A i \in DOMAIN tests :
            /\ i \in DOMAIN tests'
            /\ tests'[i].id = tests[i].id
            /\ tests'[i].created_by = tests[i].created_by
       /\ tests' # tests /\ Len(tests') # Len(tests) =>
            /\ Len(tests') = Len(tests) + 1
            /\ resp'.op = "create_test"
            /\ resp'.status = 201
            /\ RoleOf(resp'.by) = "institution"
            /\ tests'[Len(tests')].created_by = resp'.by]_vars

\* C18 witness: the test of institution i2 has been published, given a
\* question and soft-deleted, and still names i2 as its creator
C18_Witness ==
    \E i \in DOMAIN tests :
        /\ tests[i].created_by = "i2"
        /\ tests[i].is_published
        /\ ~tests[i].is_active
        /\ \E j \in DOMAIN questions : questions[j].test_id = tests[i].id

-----------------------------------------------------------------------------
(* Claims about the owner of a profile *)

\* C19: a row enters profiles only by POST /profiles, with user_id the id of
\* the authenticated principal whatever user_id the body carries; the stored
\* rows keep their user_id.
C19_ProfileLinkedToPrincipal ==
    [][/\ \A i \in DOMAIN profiles :
            /\ i \in DOMAIN profiles'
            /\ profiles'[i].user_id = profiles[i].user_id
       /\ Len(profiles') # Len(profiles) =>
            /\ Len(profiles') = Len(profiles) + 1
            /\ resp'.op = "create_profile"
            /\ resp'.status = 201
            /\ profiles'[Len(profiles')].user_id = resp'.by
            /\ resp'.data[1].user_id = resp'.by]_vars

\* C19 witness: a principal posted a profile whose body names another user,
\* and the row stored for the request is linked to the principal
C19_Witness ==
    /\ resp.op = "create_profile"
    /\ resp.status = 201
    /\ resp.args.user_id # resp.by
    /\ \E i \in DOMAIN profiles : /\ profiles[i].id = resp.target
                                  /\ profiles[i].user_id = resp.by

-----------------------------------------------------------------------------
(* Claims about composite question creation *)

\* the create requests whose base row is stored and whose detail insert is
\* still to come
AwaitingDetail ==
    {r \in BagToSet(pending) : r.op \in CreateOps /\ r.pc = "insert_detail"}

\* the stored question with this id is active and no row of mcq_options,
\* theory_details or coding_details belongs to it
IsOrphan(question_id) ==
    /\ \E i \in DOMAIN questions : /\ questions[i].id = question_id
                                   /\ questions[i].is_active
    /\ \A i \in DOMAIN mcq_options : mcq_options[i].question_id # question_id
    /\ \A i \in DOMAIN theory_details :
            theory_details[i].question_id # question_id
    /\ \A i \in DOMAIN coding_details :
            coding_details[i].question_id # question_id

\* C20: when a create request whose base row is stored takes its detail
\* insert and no detail row is stored, the step leaves questions as it was,
\* the question is an active row without any detail row, and the request
\* has ended: it has no later step that could remove or deactivate the row.
C20_OrphanQuestionNoRollback ==
    [][\A r \in AwaitingDetail :
        (~BagIn(r, pending') /\ DetailRows' = DetailRows)
        => /\ questions' = questions
           /\ IsOrphan(r.target)'
           /\ \A later \in BagToSet(pending') :
                ~(later.op \in CreateOps /\ later.target = r.target)
           /\ resp'.op = r.op
           /\ resp'.target = r.target]_vars

\* C20 witness: a create request was answered with the bare question, which
\* is stored active while no detail table holds a row for it
C20_Witness ==
    /\ resp.op \in CreateOps
    /\ resp.status = 201
    /\ resp.data # <<>>
    /\ DOMAIN resp.data[1] \cap {"options", "details"} = {}
    /\ IsOrphan(resp.target)
    /\ pending = EmptyBag

-----------------------------------------------------------------------------
(* Claims about the type of a question *)

\* every row of the table belongs to one stored question of the type, and
\* no two rows of the table belong to the same question
HoldsOnly(table, type) ==
    /\ \A i \in DOMAIN table : TypeOf(table[i].question_id) = type
    /\ \A i, j \in DOMAIN table :
            table[i].question_id = table[j].question_id => i = j

\* C21: in every reachable state mcq_options holds rows of mcq questions
\* only, theory_details of theory questions only, coding_details of coding
\* questions only, at most one row per question, and no step changes the
\* question_type of a stored question.
C21_TypeFixedAndDetailMatches ==
    /\ [](/\ HoldsOnly(mcq_options, "mcq")
          /\ HoldsOnly(theory_details, "theory")
          /\ HoldsOnly(coding_details, "coding"))
    /\ [][\A i \in DOMAIN questions :
            /\ i \in DOMAIN questions'
            /\ questions'[i].id = questions[i].id
            /\ questions'[i].question_type = questions[i].question_type]_vars

\* C21 witness: a theory question with its detail row was soft-deleted and
\* a PUT /questions/{id}/theory-details on it was answered
C21_Witness ==
    /\ resp.op = "update_theory_details"
    /\ resp.status = 200
    /\ TypeOf(resp.target) = "theory"
    /\ resp.target \in InactiveQuestionIds
    /\ \E i \in DOMAIN theory_details :
            theory_details[i].question_id = resp.target

-----------------------------------------------------------------------------
(* Claims about the question counts of a test *)

\* the ids of the stored tests
StoredTestIds == {tests[i].id : i \in DOMAIN tests}

\* the positions of the question rows of a test, active or not
QuestionsOf(test_id) ==
    {i \in DOMAIN questions : questions[i].test_id = test_id}

\* question_count as get_test_by_id returns it, and total_questions as
\* get_test_stats returns it
QuestionCountOf(test_id) == get_test_by_id(test_id)[1].question_count

TotalQuestionsOf(test_id) == get_test_stats(test_id).total_questions

\* C22: for every stored test, question_count is the number of all question
\* rows of the test, active or not, and is at least total_questions; the
\* soft delete of an active question leaves question_count of its test as
\* it was and lowers total_questions by one.
C22_QuestionCountIgnoresIsActive ==
    /\ [](\A t \in StoredTestIds :
            /\ QuestionCountOf(t) = Cardinality(QuestionsOf(t))
            /\ QuestionCountOf(t) >= TotalQuestionsOf(t))
    /\ [][\A i \in DOMAIN questions :
            (/\ resp'.op = "delete_question"
             /\ resp'.status = 200
             /\ resp'.target = questions[i].id
             /\ questions[i].is_active
             /\ questions[i].test_id \in StoredTestIds)
            => /\ QuestionCountOf(questions[i].test_id)'
                    = QuestionCountOf(questions[i].test_id)
               /\ TotalQuestionsOf(questions[i].test_id)'
                    = TotalQuestionsOf(questions[i].test_id) - 1]_vars

\* C22 witness: a question of a test with two questions was soft-deleted;
\* question_count of the test is 2 and total_questions is 1
C22_Witness ==
    /\ resp.op = "delete_question"
    /\ resp.status = 200
    /\ \E i \in DOMAIN questions :
        /\ questions[i].id = resp.target
        /\ ~questions[i].is_active
        /\ QuestionCountOf(questions[i].test_id) = 2
        /\ TotalQuestionsOf(questions[i].test_id) = 1

-----------------------------------------------------------------------------
(* Claims about reading questions *)

\* no row of mcq_options, theory_details or coding_details belongs to the
\* question with this id
NoDetailRow(question_id) ==
    /\ \A i \in DOMAIN mcq_options : mcq_options[i].question_id # question_id
    /\ \A i \in DOMAIN theory_details :
            theory_details[i].question_id # question_id
    /\ \A i \in DOMAIN coding_details :
            coding_details[i].question_id # question_id

\* C23: GET /questions/{id} answers 404 exactly when no question row has
\* the id; for a stored question without a detail row it answers 200 with
\* the base row and neither an "options" nor a "details" key, and
\* GET /questions/test/{test_id} lists such a question, when active, as its
\* base row in the same way.
C23_OrphanReadAsBaseRow ==
    [][/\ resp'.op = "get_question" =>
            /\ resp'.status \in {200, 404}
            /\ resp'.status = 404
                <=> resp'.target \notin {questions[i].id : i \in DOMAIN questions}
            /\ \A i \in DOMAIN questions :
                (questions[i].id = resp'.target /\ NoDetailRow(questions[i].id))
                => /\ resp'.status = 200
                   /\ resp'.data = <<questions[i]>>
       /\ (resp'.op = "get_questions_by_test" /\ resp'.status = 200) =>
            \A i \in DOMAIN questions :
                (/\ questions[i].test_id = resp'.target
                 /\ questions[i].is_active
                 /\ resp'.args \in {NULL, questions[i].question_type}
                 /\ NoDetailRow(questions[i].id))
                => \E k \in DOMAIN resp'.data :
                        resp'.data[k] = questions[i]]_vars

\* C23 witness: the list of a test was answered with two questions, one
\* with its nested detail and one, an orphan, as the bare base row
C23_Witness ==
    /\ resp.op = "get_questions_by_test"
    /\ resp.status = 200
    /\ Len(resp.data) = 2
    /\ \E k \in DOMAIN resp.data :
            /\ DOMAIN resp.data[k] \cap {"options", "details"} = {}
            /\ NoDetailRow(resp.data[k].id)
    /\ \E k \in DOMAIN resp.data :
            DOMAIN resp.data[k] \cap {"options", "details"} # {}

\* the positions of the active questions of the test that a list request
\* with this type filter asks for
Listable(test_id, question_type) ==
    {i \in DOMAIN questions :
        /\ questions[i].test_id = test_id
        /\ questions[i].is_active
        /\ question_type # NULL => questions[i].question_type = question_type}

\* the listed row is the question with its detail row, if it has one,
\* nested under the key of its type
IsQuestionWithDetail(listed, q) ==
    /\ \A f \in DOMAIN q : f \in DOMAIN listed /\ listed[f] = q[f]
    /\ DOMAIN listed \ DOMAIN q =
            IF DetailsOf(q) = {} THEN {} ELSE {DetailKey(q.question_type)}
    /\ \A row \in DetailsOf(q) : listed[DetailKey(q.question_type)] = row

\* C24: GET /questions/test/{test_id} of a stored test lists exactly the
\* active questions of the test (of the filter's type when one is given),
\* each once, in non-decreasing order_no, each as the question with its
\* detail row nested; no question of another test is listed.
C24_QuestionsByTest ==
    [][(resp'.op = "get_questions_by_test" /\ resp'.status = 200) =>
        LET data == resp'.data
            asked == Listable(resp'.target, resp'.args)
        IN /\ Len(data) = Cardinality(asked)
           /\ {data[k].id : k \in DOMAIN data}
                = {questions[i].id : i \in asked}
           /\ \A k \in DOMAIN data :
                /\ data[k].test_id = resp'.target
                /\ k < Len(data) => data[k].order_no <= data[k + 1].order_no
                /\ \E i \in asked : /\ questions[i].id = data[k].id
                                    /\ IsQuestionWithDetail(data[k], questions[i])
       ]_vars

\* C24 witness: a list was answered with two questions in the reverse of
\* their table order, while a third question, of another test or
\* soft-deleted, is stored and not listed
C24_Witness ==
    /\ resp.op = "get_questions_by_test"
    /\ resp.status = 200
    /\ Len(resp.data) = 2
    /\ resp.data[1].id > resp.data[2].id
    /\ resp.data[1].order_no < resp.data[2].order_no
    /\ "options" \in DOMAIN resp.data[1]
    /\ Len(questions) = 3

-----------------------------------------------------------------------------
(* Claims about deleting *)

\* every row of the table before the step is a row of the table after it,
\* at its place
RowsKept(before, after, key) ==
    /\ Len(after) >= Len(before)
    /\ \A i \in DOMAIN before : after[i][key] = before[i][key]

\* C25: the step answering DELETE /questions/{id} with 200 leaves every
\* field of every question row as it was except is_active of the addressed
\* row, which is false after it, and leaves mcq_options, theory_details,
\* coding_details and tests unchanged; no step of any operation removes a
\* row from any table.
C25_QuestionDeleteIsSoft ==
    [][/\ (resp'.op = "delete_question" /\ resp'.status = 200) =>
            /\ UNCHANGED <<tests, mcq_options, theory_details,
                           coding_details, profiles, test_attempts>>
            /\ DOMAIN questions' = DOMAIN questions
            /\ \A i \in DOMAIN questions :
                /\ DOMAIN questions'[i] = DOMAIN questions[i]
                /\ \A f \in DOMAIN questions[i] \ {"is_active"} :
                        questions'[i][f] = questions[i][f]
                /\ questions'[i].is_active =
                        IF questions[i].id = resp'.target THEN FALSE
                        ELSE questions[i].is_active
       /\ RowsKept(profiles, profiles', "id")
       /\ RowsKept(tests, tests', "id")
       /\ RowsKept(questions, questions', "id")
       /\ RowsKept(mcq_options, mcq_options', "question_id")
       /\ RowsKept(theory_details, theory_details', "question_id")
       /\ RowsKept(coding_details, coding_details', "question_id")
       /\ RowsKept(test_attempts, test_attempts', "id")]_vars

\* C25 witness: the delete of a coding question was answered; the question
\* is stored inactive, its coding_details row and its test are still stored
C25_Witness ==
    /\ resp.op = "delete_question"
    /\ resp.status = 200
    /\ TypeOf(resp.target) = "coding"
    /\ resp.target \in InactiveQuestionIds
    /\ \E i \in DOMAIN coding_details :
            coding_details[i].question_id = resp.target
    /\ \E i \in DOMAIN tests : tests[i].is_active

-----------------------------------------------------------------------------
(* Claims about who may change a question *)

\* the test the question with this id belongs to, NULL when there is none
TestOf(question_id) ==
    IF \E i \in DOMAIN questions : questions[i].id = question_id
    THEN questions[CHOOSE i \in DOMAIN questions :
                      questions[i].id = question_id].test_id
    ELSE NULL

\* the rows of the table that the step changes belong to questions of tests
\* created by the principal the step answers
ChangedOnlyByCreator(before, after, key, by) ==
    \A i \in DOMAIN before :
        after[i] # before[i] => CreatorOf(TestOf(before[i][key])) = by

\* C26: a step that changes a stored question row or a stored detail row
\* is a step of a request by the creator of the test the question belongs
\* to.
C26_OnlyOwnerChangesQuestions ==
    [][/\ ChangedOnlyByCreator(questions, questions', "id", resp'.by)
       /\ ChangedOnlyByCreator(mcq_options, mcq_options', "question_id",
                               resp'.by)
       /\ ChangedOnlyByCreator(theory_details, theory_details',
                               "question_id", resp'.by)
       /\ ChangedOnlyByCreator(coding_details, coding_details',
                               "question_id", resp'.by)]_vars

-----------------------------------------------------------------------------
(* Claims about rows that are soft-deleted *)

\* the ids the active listings return: GET /tests, GET /questions/test/{id}
\* and GET /profiles?is_active=true, on a page that holds every row
ListedTests ==
    LET data == TestService_get_all_tests(1, MaxReadRows, NULL, NULL)[1]
    IN {data[k].id : k \in DOMAIN data}

ListedQuestions ==
    UNION {LET data == QuestionService_get_questions_by_test(t, NULL)
           IN {data[k].id : k \in DOMAIN data} : t \in StoredTestIds}

ListedActiveProfiles ==
    LET data == ProfileService_get_all_profiles(1, MaxReadRows, "true",
                                                NULL, NULL)[1]
    IN {data[k].id : k \in DOMAIN data}

\* the update answered by the step carries is_active
CarriesIsActive(op, r) ==
    /\ r.op = op
    /\ r.status = 200
    /\ "is_active" \in r.args.present

\* C27: an update answered 200 whose payload carries is_active leaves the
\* addressed test, question or profile with is_active as carried, whatever
\* it was before, and the row is in the active listing exactly when the
\* carried value is true; an update carrying only is_active = false leaves
\* the table as the delete operation on the same row would.
C27_UpdateSetsIsActive ==
    [][/\ CarriesIsActive("update_test", resp') =>
            /\ \A i \in DOMAIN tests : tests[i].id = resp'.target =>
                    tests'[i].is_active = resp'.args.vals.is_active
            /\ resp'.target \in ListedTests' <=> resp'.args.vals.is_active
            /\ (resp'.args.present = {"is_active"}
                    /\ ~resp'.args.vals.is_active)
                => tests' = TestService_delete_test(resp'.target).rows
       /\ CarriesIsActive("update_question", resp') =>
            /\ \A i \in DOMAIN questions : questions[i].id = resp'.target =>
                    questions'[i].is_active = resp'.args.vals.is_active
            /\ resp'.target \in ListedQuestions'
                    <=> resp'.args.vals.is_active
            /\ (resp'.args.present = {"is_active"}
                    /\ ~resp'.args.vals.is_active)
                => questions' = QuestionService_delete_question(resp'.target).rows
       /\ CarriesIsActive("update_my_profile", resp') =>
            /\ \A i \in DOMAIN profiles : profiles[i].user_id = resp'.by =>
                    profiles'[i].is_active = resp'.args.vals.is_active
            /\ resp'.target \in ListedActiveProfiles'
                    <=> resp'.args.vals.is_active
            /\ (resp'.args.present = {"is_active"}
                    /\ ~resp'.args.vals.is_active)
                => profiles' = ProfileService_delete_profile(resp'.by).rows
      ]_vars

\* C27 witness: an update carrying only is_active = true was answered for
\* a test, which is active and listed, while its question and a profile are
\* stored soft-deleted
C27_Witness ==
    /\ CarriesIsActive("update_test", resp)
    /\ resp.args.present = {"is_active"}
    /\ resp.args.vals.is_active
    /\ resp.target \in ListedTests
    /\ InactiveQuestionIds # {}
    /\ \E i \in DOMAIN profiles : ~profiles[i].is_active

\* the ids of the stored tests that are soft-deleted
InactiveTestIds ==
    {tests[i].id : i \in {j \in DOMAIN tests : ~tests[j].is_active}}

\* the row of the table with this id
RowWithId(table, id) == table[CHOOSE i \in DOMAIN table : table[i].id = id]

\* C28: a soft-deleted test or question is never answered 404: the owner's
\* update, publish, unpublish and delete of a soft-deleted test are answered
\* 200 and written, a question create under it is answered 201 with the
\* question stored (or 500 when the insert fails), and an institution's
\* update and delete of a soft-deleted question are answered 200 and written.
C28_ExistenceIgnoresIsActive ==
    [][/\ (resp'.op \in TestMutations \cup CreateOps /\ resp'.status = 404)
            => resp'.target \notin StoredTestIds
       /\ (resp'.op \in QuestionIdOps /\ resp'.status = 404)
            => resp'.target \notin {questions[i].id : i \in DOMAIN questions}
       /\ (/\ resp'.op \in TestMutations
           /\ resp'.target \in InactiveTestIds
           /\ resp'.by = CreatorOf(resp'.target))
            => /\ resp'.status = 200
               /\ resp'.op = "publish_test"
                    => RowWithId(tests', resp'.target).is_published
               /\ resp'.op = "unpublish_test"
                    => ~RowWithId(tests', resp'.target).is_published
               /\ resp'.op = "delete_test"
                    => ~RowWithId(tests', resp'.target).is_active
               /\ resp'.op = "update_test"
                    => \A f \in resp'.args.present :
                        RowWithId(tests', resp'.target)[f] = resp'.args.vals[f]
       /\ (/\ resp'.op \in CreateOps
           /\ resp'.status = 201
           /\ resp'.args.test_id \in InactiveTestIds)
            => \E i \in DOMAIN questions' :
                /\ questions'[i].id = resp'.target
                /\ questions'[i].test_id = resp'.args.test_id
       /\ (/\ resp'.op \in {"update_question", "delete_question"}
           /\ resp'.target \in InactiveQuestionIds
           /\ RoleOf(resp'.by) = "institution")
            => /\ resp'.status = 200
               /\ resp'.op = "delete_question"
                    => ~RowWithId(questions', resp'.target).is_active
               /\ resp'.op = "update_question"
                    => \A f \in resp'.args.present :
                        RowWithId(questions', resp'.target)[f] = resp'.args.vals[f]
      ]_vars

\* C28 witness: the publish of a soft-deleted test was answered 200; the
\* test is stored inactive and published, with a question under it
C28_Witness ==
    /\ resp.op = "publish_test"
    /\ resp.status = 200
    /\ resp.target \in InactiveTestIds
    /\ RowWithId(tests, resp.target).is_published
    /\ \E i \in DOMAIN questions : questions[i].test_id = resp.target

-----------------------------------------------------------------------------
(* Claims about authorization and concurrent updates *)

\* the operations whose route compares the test's created_by with the caller
OwnerGatedOps == TestMutations \cup CreateOps

\* the refusal as a function of the token principal and the target test's
\* created_by alone (no profile row is read)
Denied(op, p, target) ==
    \/ RoleOf(p) # "institution"
    \/ /\ op \in OwnerGatedOps
       /\ target \in StoredTestIds
       /\ CreatorOf(target) # p

\* C29: the allow/deny outcome of a role-gated or ownership-gated request is
\* the same function of the token principal's role and id and of the target
\* test's created_by whatever the profile rows hold: a 403 is answered
\* exactly when the role is not institution or the caller is not the creator
\* of the stored target test, only allowed requests are taken in, and a
\* question is created only under a test of the caller.
C29_AuthorizationIgnoresProfiles ==
    [][/\ (resp' # NoResponse /\ resp'.op \in GatedOps)
            => /\ resp'.status = 403
                    => Denied(resp'.op, resp'.by, resp'.target)
               /\ RoleOf(resp'.by) # "institution" => resp'.status = 403
               /\ (/\ resp'.op \in TestMutations
                   /\ Denied(resp'.op, resp'.by, resp'.target))
                    => resp'.status = 403
               /\ (/\ resp'.op \in CreateOps
                   /\ resp'.status = 404)
                    => resp'.target \notin StoredTestIds
               /\ (/\ resp'.op \in CreateOps
                   /\ resp'.status = 201)
                    => CreatorOf(resp'.args.test_id) = resp'.by
       /\ \A r \in BagToSet(pending') :
            /\ r.op \in GatedOps => RoleOf(r.by) = "institution"
            /\ (r.op \in OwnerGatedOps /\ r.pc \in {"call", "insert_question"})
                    => CreatorOf(r.target) = r.by
      ]_vars

\* C29 witness: the user-role principal holds a profile row whose role is
\* institution, and its POST /tests was answered 403
C29_Witness ==
    /\ resp.op = "create_test"
    /\ resp.status = 403
    /\ RoleOf(resp.by) = "user"
    /\ \E i \in DOMAIN profiles :
            /\ profiles[i].user_id = resp.by
            /\ profiles[i].role = "institution"
            /\ profiles[i].is_active

\* the PUT /tests/{id} requests taken in and not yet applied to this test
UpdatesInFlight(test_id) ==
    { r \in BagToSet(pending) : r.op = "update_test" /\ r.target = test_id }

\* C30: each PUT /tests/{id} applied to the store writes the fields present
\* in its own payload with the payload's values and leaves every other field
\* of the row, and every other row, as the step found them, whatever other
\* updates of the same test are in flight; so two interleaved updates with
\* disjoint fields leave both requests' values in the row, and with the same
\* field the value of the one applied last.
C30_ConcurrentUpdatesKeepFields ==
    [][(/\ resp' # NoResponse
        /\ resp'.op = "update_test"
        /\ resp'.status = 200)
        => /\ Len(tests') = Len(tests)
           /\ \A i \in DOMAIN tests :
                IF tests[i].id = resp'.target
                THEN \A f \in DOMAIN tests[i] :
                        tests'[i][f] = IF f \in resp'.args.present
                                       THEN resp'.args.vals[f]
                                       ELSE tests[i][f]
                ELSE tests'[i] = tests[i]
           /\ resp'.data # <<>>
                => \A f \in resp'.args.present :
                        resp'.data[1][f] = resp'.args.vals[f]
      ]_vars

\* C30 witness: an update carrying only is_active = false was applied to a
\* test while a second update of the same test by the owner is in flight;
\* the row keeps the is_published value it had
C30_Witness ==
    /\ resp.op = "update_test"
    /\ resp.status = 200
    /\ resp.args.present = {"is_active"}
    /\ ~resp.args.vals.is_active
    /\ \E r \in UpdatesInFlight(resp.target) : r.by = CreatorOf(resp.target)
    /\ ~RowWithId(tests, resp.target).is_active
    /\ RowWithId(tests, resp.target).is_published = DefaultIsPublished

====
